---- MODULE Spec2Model ----
(***************************************************************************)
(* Model of the HAR network-capture evidence engine (app/har_analyzer.py). *)
(* URLs, MIME types and domains are strings; the classifiers are modelled  *)
(* character by character, the analysis as the fold the code performs.     *)
(***************************************************************************)
EXTENDS Integers, Sequences, FiniteSets, TLC

VARIABLES
    har_data,     \* the argument of analyze_har
    hash_seed,    \* the order in which this process iterates a set of strs
    args,         \* the arguments of a call of one of the pure helpers
    result,       \* what the last call returned (or raised)
    prev_result,  \* what the call before it returned
    pc,           \* "ready" before a call, "done" after it
    analysis_history  \* the AnalysisHistory object of the service (main.py line 53)

vars == <<har_data, hash_seed, args, result, prev_result, pc, analysis_history>>

-----------------------------------------------------------------------------
(* Strings: the Python str operations the code uses.                       *)

\* Python s[i:i+1], 1-based: the empty string outside the string
Ch(s, i) == IF i >= 1 /\ i <= Len(s) THEN SubSeq(s, i, i) ELSE ""

Digit == {"0", "1", "2", "3", "4", "5", "6", "7", "8", "9"}

UpperCase == "ABCDEFGHIJKLMNOPQRSTUVWXYZ"

LowerCase == "abcdefghijklmnopqrstuvwxyz"

Letter == {Ch(UpperCase, i) : i \in 1..Len(UpperCase)} \cup {Ch(LowerCase, i) : i \in 1..Len(LowerCase)}

LowerChar(c) ==
    IF \E i \in 1..Len(UpperCase) : Ch(UpperCase, i) = c
    THEN Ch(LowerCase, CHOOSE i \in 1..Len(UpperCase) : Ch(UpperCase, i) = c)
    ELSE c

\* Python s.lower(), character by character (the string is halved so that
\* the recursion stays shallow)
RECURSIVE str_lower(_)
str_lower(s) ==
    IF Len(s) = 0 THEN ""
    ELSE IF Len(s) = 1 THEN LowerChar(s)
    ELSE str_lower(SubSeq(s, 1, Len(s) \div 2)) \o str_lower(SubSeq(s, Len(s) \div 2 + 1, Len(s)))

\* sub occurs in s starting at position i
StartsAt(s, i, sub) == i >= 1 /\ i + Len(sub) - 1 <= Len(s) /\ SubSeq(s, i, i + Len(sub) - 1) = sub

\* Python `sub in s`
Contains(s, sub) == \E i \in 1..(Len(s) + 1) : StartsAt(s, i, sub)

\* Python s.find(sub, start) with 1-based positions; 0 when absent
Find(s, sub, start) ==
    IF \E i \in start..(Len(s) + 1) : StartsAt(s, i, sub)
    THEN CHOOSE i \in start..(Len(s) + 1) :
            StartsAt(s, i, sub) /\ \A j \in start..(i - 1) : ~StartsAt(s, j, sub)
    ELSE 0

\* Python s.rfind(sub); 0 when absent
RFind(s, sub) ==
    IF Contains(s, sub)
    THEN CHOOSE i \in 1..(Len(s) + 1) :
            StartsAt(s, i, sub) /\ \A j \in (i + 1)..(Len(s) + 1) : ~StartsAt(s, j, sub)
    ELSE 0

\* the characters of s from position i to the end
From(s, i) == SubSeq(s, i, Len(s))

\* Python s[:n]
Prefix(s, n) == SubSeq(s, 1, IF n < Len(s) THEN n ELSE Len(s))

AllDigits(s, i, j) == \A k \in i..j : Ch(s, k) \in Digit

-----------------------------------------------------------------------------
(* urllib.parse.urlparse, as far as extract_domain and extract_path use it *)

SchemeChar == Letter \cup Digit \cup {"+", "-", "."}

\* position of the ':' ending a valid scheme, 0 when the URL has none
ValidScheme(url, i) ==
    IF i > 1 /\ Ch(url, 1) \in Letter /\ \A k \in 1..(i - 1) : Ch(url, k) \in SchemeChar
    THEN i ELSE 0

SchemeEnd(url) == ValidScheme(url, Find(url, ":", 1))

\* first position >= start holding one of "/", "?", "#"; Len(s) + 1 when none
NetlocEnd(s, start) ==
    IF \E i \in start..Len(s) : Ch(s, i) \in {"/", "?", "#"}
    THEN CHOOSE i \in start..Len(s) :
            Ch(s, i) \in {"/", "?", "#"} /\ \A j \in start..(i - 1) : Ch(s, j) \notin {"/", "?", "#"}
    ELSE Len(s) + 1

\* s up to position i - 1; all of s when i = 0
CutBefore(s, i) == IF i = 0 THEN s ELSE SubSeq(s, 1, i - 1)

\* s up to the first occurrence of c
CutAt(s, c) == CutBefore(s, Find(s, c, 1))

\* the greater of two numbers
Larger(a, b) == IF a > b THEN a ELSE b

\* _splitparams: the path without the ";params" of its last segment
SplitParams(p) == CutBefore(p, Find(p, ";", Larger(RFind(p, "/"), 1)))

\* [netloc, path, error]; error is the ValueError urlsplit raises on an
\* unbalanced IPv6 bracket in the netloc
UrlParts(netloc, after) ==
    [netloc |-> netloc,
     path |-> SplitParams(CutAt(CutAt(after, "#"), "?")),
     error |-> Contains(netloc, "[") # Contains(netloc, "]")]

\* the URL after its scheme: a netloc follows a leading "//"
SplitNetloc(rest) ==
    IF StartsAt(rest, 1, "//")
    THEN UrlParts(SubSeq(rest, 3, NetlocEnd(rest, 3) - 1), From(rest, NetlocEnd(rest, 3)))
    ELSE UrlParts("", rest)

urlparse(url) == SplitNetloc(From(url, SchemeEnd(url) + 1))

\* the except branches of extract_domain and extract_path
NetlocOrEmpty(u) == IF u.error THEN "" ELSE u.netloc

PathOrEmpty(u) == IF u.error THEN "" ELSE u.path

extract_domain(url) == NetlocOrEmpty(urlparse(url))

extract_path(url) == PathOrEmpty(urlparse(url))

-----------------------------------------------------------------------------
(* The fixed tables of the classifier                                      *)

STREAMING_EXTENSIONS ==
    <<".m3u8", ".ts", ".mp4", ".webm", ".flv", ".m4s", ".m4v",
      ".mpd", ".dash", ".f4v", ".f4m", ".ism", ".isml">>

\* the MIME substrings tested at har_analyzer.py:138, in order
STREAMING_MIMES == <<"mpegurl", "m3u8", "mp2t", "video", "octet-stream">>

\* A pattern  word[_-]?\d+  is [kind |-> "word", word |-> ...];
\* \d{4,}\.(?:jpg|jpeg|png|ts|mp4) and [a-z]+\d{3,}\.(?:jpg|jpeg|png|gif)
\* are [kind |-> "numbered", alpha, min, exts].
WordPattern(w) == [kind |-> "word", word |-> w, alpha |-> FALSE, min |-> 1, exts |-> {}]

SEGMENT_PATTERNS ==
    <<WordPattern("segment"), WordPattern("seg"), WordPattern("chunk"),
      WordPattern("part"), WordPattern("frag"), WordPattern("ts"),
      [kind |-> "numbered", word |-> "", alpha |-> FALSE, min |-> 4,
       exts |-> {"jpg", "jpeg", "png", "ts", "mp4"}],
      [kind |-> "numbered", word |-> "", alpha |-> TRUE, min |-> 3,
       exts |-> {"jpg", "jpeg", "png", "gif"}]>>

\* word.*\.js is [word, js |-> TRUE]; a literal is [word, js |-> FALSE]
PLAYER_PATTERNS ==
    <<[word |-> "video", js |-> TRUE], [word |-> "player", js |-> TRUE],
      [word |-> "hls", js |-> TRUE], [word |-> "dash", js |-> TRUE],
      [word |-> "jwplayer", js |-> FALSE], [word |-> "flowplayer", js |-> FALSE],
      [word |-> "plyr", js |-> FALSE], [word |-> "videojs", js |-> FALSE],
      [word |-> "mediaelement", js |-> FALSE], [word |-> "clappr", js |-> FALSE]>>

\* word\d*\. is [word, min |-> 0]; word\d+\. is [word, min |-> 1]
SUSPICIOUS_DOMAIN_PATTERNS ==
    <<[word |-> "cdn", min |-> 0], [word |-> "stream", min |-> 0],
      [word |-> "video", min |-> 0], [word |-> "media", min |-> 0],
      [word |-> "img", min |-> 0], [word |-> "static", min |-> 0],
      [word |-> "s", min |-> 1], [word |-> "v", min |-> 1],
      [word |-> "edge", min |-> 0], [word |-> "node", min |-> 0]>>

\* the keys of CDN_HEADERS in the dict's order, and the label of each
CDN_HEADER_KEYS ==
    <<"cf-ray", "cf-cache-status", "x-cache", "x-amz-cf-id", "x-amz-cf-pop",
      "x-akamai-request-id", "x-served-by", "x-cdn", "via", "server", "x-hw", "x-swift">>

CDN_HEADERS ==
    [k \in {CDN_HEADER_KEYS[i] : i \in 1..Len(CDN_HEADER_KEYS)} |->
        CASE k \in {"cf-ray", "cf-cache-status"} -> "Cloudflare"
          [] k = "x-cache" -> "CDN Cache"
          [] k \in {"x-amz-cf-id", "x-amz-cf-pop"} -> "CloudFront"
          [] k = "x-akamai-request-id" -> "Akamai"
          [] k = "x-served-by" -> "Fastly/Varnish"
          [] k = "x-cdn" -> "CDN"
          [] k = "via" -> "Proxy/CDN"
          [] k = "server" -> "Server"
          [] k = "x-hw" -> "Huawei CDN"
          [] OTHER -> "OpenStack Swift"]

-----------------------------------------------------------------------------
(* re.search for the three pattern tables                                  *)

\* word[_-]?\d+ somewhere in s (s already lower-cased / IGNORECASE)
SearchWord(w, s) ==
    \E i \in 1..Len(s) :
        /\ StartsAt(s, i, w)
        /\ LET n == i + Len(w)
           IN  \/ Ch(s, n) \in Digit
               \/ (Ch(s, n) \in {"_", "-"} /\ Ch(s, n + 1) \in Digit)

\* \d{min,}\.(?:exts), with [a-z]+ before the digits when alpha
SearchNumbered(p, s) ==
    \E d \in 1..Len(s) :
        /\ Ch(s, d) = "."
        /\ \E e \in p.exts : StartsAt(s, d + 1, e)
        /\ \E k \in p.min..(d - 1) :
              /\ AllDigits(s, d - k, d - 1)
              /\ p.alpha => (d - k - 1 >= 1 /\ Ch(s, d - k - 1) \in Letter)

SearchSegmentPattern(p, s) ==
    LET t == str_lower(s)
    IN  IF p.kind = "word" THEN SearchWord(p.word, t) ELSE SearchNumbered(p, t)

\* word.*\.js, or the literal word (newlines, which `.` excludes, do not
\* occur in URLs)
SearchPlayerPattern(p, s) ==
    IF p.js
    THEN \E i \in 1..Len(s) :
            StartsAt(s, i, p.word) /\ \E j \in (i + Len(p.word))..Len(s) : StartsAt(s, j, ".js")
    ELSE Contains(s, p.word)

\* word\d*\. or word\d+\.
SearchDomainPattern(p, s) ==
    \E i \in 1..Len(s) :
        /\ StartsAt(s, i, p.word)
        /\ \E k \in p.min..Len(s) :
              LET n == i + Len(p.word)
              IN  AllDigits(s, n, n + k - 1) /\ Ch(s, n + k) = "."

-----------------------------------------------------------------------------
(* The URL classifier                                                      *)

\* Python ext.replace(".", "")
RECURSIVE RemoveDots(_)
RemoveDots(s) ==
    IF Len(s) = 0 THEN ""
    ELSE (IF Ch(s, 1) = "." THEN "" ELSE Ch(s, 1)) \o RemoveDots(From(s, 2))

Min(S) == CHOOSE x \in S : \A y \in S : x <= y

Max(S) == CHOOSE x \in S : \A y \in S : x >= y

\* the listed extensions, by position in the table, that url_lower contains
ExtensionsIn(url_lower) ==
    {i \in 1..Len(STREAMING_EXTENSIONS) : Contains(url_lower, STREAMING_EXTENSIONS[i])}

\* the three checks of lines 131-144 on the lower-cased URL, its path and
\* the lower-cased MIME type
ExtensionCheck(url_lower) ==
    <<TRUE, RemoveDots(STREAMING_EXTENSIONS[Min(ExtensionsIn(url_lower))]), "extension">>

MimeCheck(mime_lower) == \E i \in 1..Len(STREAMING_MIMES) : Contains(mime_lower, STREAMING_MIMES[i])

SegmentCheck(path) == \E i \in 1..Len(SEGMENT_PATTERNS) : SearchSegmentPattern(SEGMENT_PATTERNS[i], path)

\* the checks with the MIME check ahead of the extension check
StreamingChecks_MimeFirst(url_lower, mime_lower) ==
    IF MimeCheck(mime_lower) THEN <<TRUE, "mime", "mime_type">>
    ELSE IF ExtensionsIn(url_lower) # {} THEN ExtensionCheck(url_lower)
    ELSE IF SegmentCheck(extract_path(url_lower)) THEN <<TRUE, "segment", "segment_pattern">>
    ELSE <<FALSE, "", "">>

StreamingChecks(url_lower, mime_lower) ==
    IF ExtensionsIn(url_lower) # {} THEN ExtensionCheck(url_lower)
    ELSE IF MimeCheck(mime_lower) THEN <<TRUE, "mime", "mime_type">>
    ELSE IF SegmentCheck(extract_path(url_lower)) THEN <<TRUE, "segment", "segment_pattern">>
    ELSE <<FALSE, "", "">>

is_streaming_url(url, mime_type) == StreamingChecks(str_lower(url), str_lower(mime_type))

is_player_script(url) ==
    \E i \in 1..Len(PLAYER_PATTERNS) : SearchPlayerPattern(PLAYER_PATTERNS[i], str_lower(url))

is_suspicious_streaming_domain(domain) ==
    \E i \in 1..Len(SUSPICIOUS_DOMAIN_PATTERNS) :
        SearchDomainPattern(SUSPICIOUS_DOMAIN_PATTERNS[i], str_lower(domain))

-----------------------------------------------------------------------------
(* The sequence pattern detector                                           *)

\* last position of the maximal digit run of s that starts at i
RunEnd(s, i) == CHOOSE j \in i..Len(s) : AllDigits(s, i, j) /\ Ch(s, j + 1) \notin Digit

\* first position >= i of s holding a digit; Len(s) + 1 when none
NextDigit(s, i) ==
    IF \E j \in i..Len(s) : Ch(s, j) \in Digit
    THEN CHOOSE j \in i..Len(s) : Ch(s, j) \in Digit /\ \A k \in i..(j - 1) : Ch(s, k) \notin Digit
    ELSE Len(s) + 1

\* re.findall(r'\d+', s): the maximal digit runs, left to right
RECURSIVE DigitRuns(_, _)
DigitRuns(s, i) ==
    LET d == NextDigit(s, i)
    IN  IF d > Len(s) THEN <<>>
        ELSE <<SubSeq(s, d, RunEnd(s, d))>> \o DigitRuns(s, RunEnd(s, d) + 1)

\* re.sub(r'\d+', '{N}', s)
RECURSIVE SubstituteRuns(_, _)
SubstituteRuns(s, i) ==
    LET d == NextDigit(s, i)
    IN  IF d > Len(s) THEN From(s, i)
        ELSE SubSeq(s, i, d - 1) \o "{N}" \o SubstituteRuns(s, RunEnd(s, d) + 1)

\* the first run, whatever its length
LongestRun_First(numbers) == numbers[1]

\* max(numbers, key=len): the first run of the greatest length
LongestRun(numbers) ==
    LET best == Max({Len(numbers[i]) : i \in 1..Len(numbers)})
    IN  numbers[Min({i \in 1..Len(numbers) : Len(numbers[i]) = best})]

DigitValue(c) == CHOOSE d \in 0..9 : Ch("0123456789", d + 1) = c

\* int(s) for a string of decimal digits
RECURSIVE StrToInt(_)
StrToInt(s) ==
    IF Len(s) = 0 THEN 0
    ELSE 10 * StrToInt(SubSeq(s, 1, Len(s) - 1)) + DigitValue(Ch(s, Len(s)))

\* path.split('/')[-1]
LastSegment(path) == From(path, RFind(path, "/") + 1)

\* Lines 173-183 for one URL: whether the filename holds a number, the
\* pattern it is filed under and its sequence number.
NumbersKey(filename, numbers) ==
    IF numbers = <<>>
    THEN [numbered |-> FALSE, pattern |-> "", seq_num |-> 0]
    ELSE [numbered |-> TRUE,
          pattern |-> SubstituteRuns(filename, 1),
          seq_num |-> StrToInt(LongestRun(numbers))]

FilenameKey(filename) == NumbersKey(filename, DigitRuns(filename, 1))

FileKey(url) == FilenameKey(LastSegment(extract_path(url)))

-----------------------------------------------------------------------------
(* Python values as the JSON decoder produces them: the pair of a type     *)
(* (x[1]) and a payload (x[2]).                                            *)
(* A dict is a function from its keys; a "text" is the str handed to       *)
(* analyze_har, holding the value json.loads makes of it (or "invalid",    *)
(* for text json.loads rejects).                                           *)

JDict(f) == <<"dict", f>>

JList(q) == <<"list", q>>

JStr(s) == <<"str", s>>

JInt(n) == <<"int", n>>

JNull == <<"null", 0>>

JInvalid == <<"invalid", 0>>

JText(doc) == <<"text", doc>>

EmptyMap == [k \in {} |-> JNull]

None == "<None>"

\* d.get(key): None for a key that is absent
Get_NoDefault(d, key, default) == IF key \in DOMAIN d[2] THEN d[2][key] ELSE JNull

\* d.get(key, default) on a dict
Get(d, key, default) == IF key \in DOMAIN d[2] THEN d[2][key] ELSE default

\* Python truth of a value, for `x or 0`
Truthy(x) ==
    CASE x[1] = "null" -> FALSE
      [] x[1] = "int" -> x[2] # 0
      [] x[1] = "str" -> Len(x[2]) > 0
      [] x[1] = "list" -> Len(x[2]) > 0
      [] x[1] = "dict" -> DOMAIN x[2] # {}
      [] OTHER -> TRUE

SeqRange(q) == {q[i] : i \in 1..Len(q)}

RECURSIVE SeqOfSet(_)
SeqOfSet(S) ==
    IF S = {} THEN <<>> ELSE LET x == CHOOSE y \in S : TRUE IN <<x>> \o SeqOfSet(S \ {x})

\* iter(x) for the values that can be iterated, as a sequence: a str
\* yields its characters, a dict its keys (all of them strs: the model
\* keeps no key order, and none is needed)
Items(x) ==
    CASE x[1] = "list" -> x[2]
      [] x[1] = "str" -> [i \in 1..Len(x[2]) |-> JStr(Ch(x[2], i))]
      [] x[1] = "dict" -> LET keys == SeqOfSet(DOMAIN x[2]) IN [i \in 1..Len(keys) |-> JStr(keys[i])]
      [] OTHER -> <<>>

Iterable(x) == x[1] \in {"list", "str", "dict"}

-----------------------------------------------------------------------------
(* Lines 218-227: the guarded parse.  [error, entries]; error is the name  *)
(* of the exception caught, "" when none.                                  *)

ParseHar(data) ==
    LET har == IF data[1] = "text" THEN data[2] ELSE data
        log == Get(har, "log", JDict(EmptyMap))
    IN  IF har[1] = "invalid" THEN [error |-> "JSONDecodeError", entries |-> JNull]
        ELSE IF har[1] # "dict" THEN [error |-> "AttributeError", entries |-> JNull]
        ELSE IF log[1] # "dict" THEN [error |-> "AttributeError", entries |-> JNull]
        ELSE [error |-> "", entries |-> Get(log, "entries", JList(<<>>))]

-----------------------------------------------------------------------------
(* Lines 241-302, for one entry                                            *)

\* Lines 259-260 / 263-264: the exception a header list raises, "" if none
HeadersError(headers) ==
    IF ~Iterable(headers) THEN "TypeError"
    ELSE LET hs == Items(headers)
         IN  IF \E i \in 1..Len(hs) :
                    \/ hs[i][1] # "dict"
                    \/ Get(hs[i], "name", JStr(""))[1] # "str"
             THEN "AttributeError" ELSE ""

\* h.get('name', '').lower()
HeaderName(h) == str_lower(Get(h, "name", JStr(""))[2])

\* Lines 258-260: the dict of lower-cased header names; a later header of
\* the same name replaces an earlier one
NamedValues(hs) ==
    [k \in {HeaderName(hs[i]) : i \in 1..Len(hs)} |->
        Get(hs[Max({i \in 1..Len(hs) : HeaderName(hs[i]) = k})], "value", JStr(""))]

HeaderMap(headers) == NamedValues(Items(headers))

\* header_key[:100] needs a value that can be sliced
Sliceable(x) == x[1] \in {"str", "list"}

Slice100(x) == IF x[1] = "str" THEN JStr(Prefix(x[2], 100)) ELSE JList(SubSeq(x[2], 1, Min({100, Len(x[2])})))

\* Line 287: a CDN header whose value cannot be sliced
CdnValueError(response_headers) ==
    \E i \in 1..Len(CDN_HEADER_KEYS) :
        /\ CDN_HEADER_KEYS[i] \in DOMAIN response_headers
        /\ ~Sliceable(response_headers[CDN_HEADER_KEYS[i]])

\* Line 276: the size of a segment is added to an int
SegmentSizeError(stream, size) ==
    /\ stream[1]
    /\ stream[2] \in {"segment", "ts", "mp4", "webm", "m4s"}
    /\ Truthy(size)
    /\ size[1] # "int"

\* the str a field holds, "" for a field of another type
StrOrEmpty(x) == IF x[1] = "str" THEN x[2] ELSE ""

\* Lines 258-302 on the fields of an entry
FieldsError(url, mime_type, size, resp_headers, req_headers) ==
    IF HeadersError(resp_headers) # "" THEN HeadersError(resp_headers)
    ELSE IF HeadersError(req_headers) # "" THEN HeadersError(req_headers)
    ELSE IF CdnValueError(HeaderMap(resp_headers)) THEN "TypeError"
    ELSE IF url[1] # "str" THEN "AttributeError"
    ELSE IF ExtensionsIn(str_lower(url[2])) = {} /\ mime_type[1] # "str" THEN "AttributeError"
    ELSE IF SegmentSizeError(is_streaming_url(url[2], StrOrEmpty(mime_type)), size) THEN "TypeError"
    ELSE ""

\* Lines 253-255
ContentError(request, response, content) ==
    IF content[1] # "dict" THEN "AttributeError"
    ELSE FieldsError(Get(request, "url", JStr("")),
                     Get(content, "mimeType", JStr("")),
                     Get(content, "size", JInt(0)),
                     Get(response, "headers", JList(<<>>)),
                     Get(request, "headers", JList(<<>>)))

\* Lines 245-253
RequestResponseError(request, response) ==
    IF request[1] # "dict" THEN "AttributeError"
    ELSE IF response[1] # "dict" THEN "AttributeError"
    ELSE ContentError(request, response, Get(response, "content", JDict(EmptyMap)))

\* The exception the loop body raises on this entry, "" when it completes.
EntryError(entry) ==
    IF entry[1] # "dict" THEN "AttributeError"
    ELSE RequestResponseError(Get(entry, "request", JDict(EmptyMap)),
                              Get(entry, "response", JDict(EmptyMap)))

\* Lines 283-291: the CDN headers found, in the order of the table
CdnHits(domain, response_headers, hits) ==
    [i \in 1..Len(hits) |->
        [name |-> CDN_HEADERS[hits[i]],
         domain |-> domain,
         header |-> hits[i],
         value |-> Slice100(response_headers[hits[i]])]]

Observation(url, domain, mime, size, response_headers) ==
    [url |-> url,
     domain |-> domain,
     content_size |-> IF Truthy(size) /\ size[1] = "int" THEN size[2] ELSE 0,
     cdn |-> CdnHits(domain, response_headers,
                     SelectSeq(CDN_HEADER_KEYS, LAMBDA k : k \in DOMAIN response_headers)),
     stream |-> is_streaming_url(url, StrOrEmpty(mime)),
     player |-> is_player_script(url),
     suspicious |-> is_suspicious_streaming_domain(domain)]

ObserveFields(url, content, response_headers) ==
    Observation(url, extract_domain(url), Get(content, "mimeType", JStr("")),
                Get(content, "size", JInt(0)), response_headers)

\* the URL kept in its lower-cased form
ObserveParts_LowerUrl(request, response) ==
    ObserveFields(str_lower(Get(request, "url", JStr(""))[2]),
                  Get(response, "content", JDict(EmptyMap)),
                  HeaderMap(Get(response, "headers", JList(<<>>))))

ObserveParts(request, response) ==
    ObserveFields(Get(request, "url", JStr(""))[2],
                  Get(response, "content", JDict(EmptyMap)),
                  HeaderMap(Get(response, "headers", JList(<<>>))))

\* What the loop body derives from an entry it completes on.
Observe(entry) ==
    ObserveParts(Get(entry, "request", JDict(EmptyMap)), Get(entry, "response", JDict(EmptyMap)))

-----------------------------------------------------------------------------
(* The captures the analysis is checked on.  An entry is built as a HAR    *)
(* exporter writes it; a capture is a few runs of a repeated entry, so     *)
(* that the counts the code compares against (3, 5, 10) are all reached.   *)

Header(name, value) == JDict([name |-> JStr(name), value |-> JStr(value)])

Entry(url, mime_type, size, headers) ==
    JDict([request |-> JDict([url |-> JStr(url), headers |-> JList(<<>>)]),
           response |-> JDict([headers |-> JList(headers),
                               content |-> JDict([mimeType |-> JStr(mime_type),
                                                  size |-> JInt(size)])])])

PlaylistEntry ==
    Entry("http://cdn1.x/hls/master.m3u8", "application/vnd.apple.mpegurl", 1200,
          <<Header("CF-Ray", "8a1")>>)

SegmentEntry == Entry("http://media.y/v/seg1.ts", "video/mp2t", 600000, <<Header("X-Cache", "HIT")>>)

FarSegmentEntry == Entry("http://media.y/v/seg100.ts", "video/mp2t", 600000, <<>>)

PlayerEntry ==
    Entry("http://a.com/js/video.min.js", "application/javascript", 5000,
          <<Header("Server", "nginx")>>)

PageEntry == Entry("http://a.com/index.html", "text/html", 9000, <<>>)

ImageEntry == Entry("http://a.com/img/p7.png", "image/png", 300, <<>>)

EntryCatalog == {PlaylistEntry, SegmentEntry, FarSegmentEntry, PlayerEntry, PageEntry, ImageEntry}

\* how many times a run repeats its entry
Repeats == {1, 3, 5, 10}

\* the most runs a capture is made of
MaxRuns == 2

Repeat(e, n) == [i \in 1..n |-> e]

\* the entry lists of at most k runs
RECURSIVE RunLists(_)
RunLists(k) ==
    IF k = 0 THEN {<<>>}
    ELSE LET shorter == RunLists(k - 1)
         IN  shorter \cup {q \o Repeat(e, n) : q \in shorter, e \in EntryCatalog, n \in Repeats}

\* the document of a capture, and the text the endpoint hands to analyze_har
CaptureDoc(entries) == JDict([log |-> JDict([entries |-> JList(entries)])])

Captures == {JText(CaptureDoc(q)) : q \in RunLists(MaxRuns)}

-----------------------------------------------------------------------------
(* Documents of other shapes: text that is not JSON, a top level or a log  *)
(* of another type, a log or an entry list that is absent, entries that    *)
(* lack fields, and entries whose fields have another type.                *)

\* the fields an entry may lack
EntryFields == {"request", "request.url", "request.headers", "response", "response.headers",
                "response.content", "mimeType", "size"}

\* the dict d without the keys in keys
Without(d, keys) == JDict([k \in DOMAIN d[2] \ keys |-> d[2][k]])

\* the dict d with key set to value
With(d, key, value) == JDict([k \in DOMAIN d[2] \cup {key} |-> IF k = key THEN value ELSE d[2][k]])

\* a complete entry, written without the fields in absent
Omit(entry, absent) ==
    LET content == Without(entry[2].response[2].content,
                           {k \in {"mimeType", "size"} : k \in absent})
        response == Without(With(entry[2].response, "content", content),
                            {k \in {"headers", "content"} : ("response." \o k) \in absent})
        request == Without(entry[2].request,
                           {k \in {"url", "headers"} : ("request." \o k) \in absent})
    IN  Without(JDict([request |-> request, response |-> response]),
                {k \in {"request", "response"} : k \in absent})

\* the complete entries that fields are taken from
ShapeBases == {SegmentEntry}

AbsentFieldEntries == {Omit(e, absent) : e \in ShapeBases, absent \in SUBSET EntryFields}

\* values of a type the code does not expect in a field
Mistyped == {JNull, JInt(5), JStr("ab"), JStr(""), JList(<<>>), JList(<<JInt(5)>>), JDict(EmptyMap)}

InRequest(entry, key, value) == With(entry, "request", With(entry[2].request, key, value))

InResponse(entry, key, value) == With(entry, "response", With(entry[2].response, key, value))

InContent(entry, key, value) == InResponse(entry, "content", With(entry[2].response[2].content, key, value))

\* header lists with an element, a name or a value of another type
MistypedHeaders ==
    {JList(<<JDict(EmptyMap)>>),
     JList(<<JDict([name |-> JInt(5), value |-> JStr("HIT")])>>),
     JList(<<JDict([name |-> JStr("X-Cache"), value |-> JInt(5)])>>),
     JList(<<JDict([name |-> JStr("X-Cache"), value |-> JNull])>>),
     JList(<<JDict([name |-> JStr("X-Other"), value |-> JInt(5)])>>),
     JList(<<JDict([name |-> JStr("X-Cache")])>>)}

\* entries that are not objects, and entries with one field of another type
IllTypedEntries ==
    Mistyped
    \cup {With(e, k, x) : e \in {SegmentEntry}, k \in {"request", "response"}, x \in Mistyped}
    \cup {InRequest(e, k, x) : e \in {SegmentEntry}, k \in {"url", "headers"}, x \in Mistyped}
    \cup {InResponse(e, k, x) : e \in {SegmentEntry}, k \in {"content", "headers"},
                                x \in Mistyped \cup MistypedHeaders}
    \cup {InContent(e, k, x) : e \in {SegmentEntry, PageEntry}, k \in {"mimeType", "size"},
                               x \in Mistyped}

ShapeEntries == AbsentFieldEntries \cup IllTypedEntries

\* the most entries a document of SpecShapes holds
MaxShapeEntries == 1

RECURSIVE ShapeLists(_)
ShapeLists(k) ==
    IF k = 0 THEN {<<>>}
    ELSE LET shorter == ShapeLists(k - 1)
         IN  shorter \cup {Append(q, e) : q \in shorter, e \in ShapeEntries}

\* documents whose top level, log or entries is absent or of another type
TopLevelDocs ==
    {JInvalid, JDict(EmptyMap), JDict([log |-> JDict(EmptyMap)])}
    \cup (Mistyped \ {JDict(EmptyMap)})
    \cup {JDict([log |-> x]) : x \in Mistyped \ {JDict(EmptyMap)}}
    \cup {JDict([log |-> JDict([entries |-> x])]) : x \in Mistyped \cup {JDict([a |-> JInt(1)])}}

\* analyze_har takes the text of a document or the parsed document (a dict)
ShapeDocs ==
    {JText(d) : d \in TopLevelDocs \cup {CaptureDoc(q) : q \in ShapeLists(MaxShapeEntries)}}
    \cup {d \in TopLevelDocs : d[1] = "dict"}
    \cup {CaptureDoc(q) : q \in ShapeLists(MaxShapeEntries)}

\* d[key] if present, else zero
OrZero(d, key, zero) == IF key \in DOMAIN d[2] THEN d[2][key] ELSE zero

\* the entry with every absent field written out as empty text, an empty
\* list or zero
ZeroFilled(entry) ==
    LET request == OrZero(entry, "request", JDict(EmptyMap))
        response == OrZero(entry, "response", JDict(EmptyMap))
        content == OrZero(response, "content", JDict(EmptyMap))
    IN  JDict([request |-> JDict([url |-> OrZero(request, "url", JStr("")),
                                  headers |-> OrZero(request, "headers", JList(<<>>))]),
               response |-> JDict([headers |-> OrZero(response, "headers", JList(<<>>)),
                                   content |-> JDict([mimeType |-> OrZero(content, "mimeType", JStr("")),
                                                      size |-> OrZero(content, "size", JInt(0))])])])

-----------------------------------------------------------------------------
(* Arguments of the classifier and of the sequence detector                *)

ClassifyUrls ==
    {"http://cdn1.x/hls/master.m3u8", "http://media.y/v/seg1.ts", "HTTP://MEDIA.Y/V/CLIP.MP4",
     "http://a.com/play?file=a.webm", "http://a.com/v.ts?next=list.m3u8",
     "http://a.com/m/manifest.isml", "http://a.com/d/init.mpd", "http://a.com/app.tsx",
     "http://media.y/v/segment_0001", "http://media.y/v/chunk-7", "http://a.com/img/0001.jpg",
     "http://a.com/img/abc001.gif", "http://a.com/v/Frag_12", "http://a.com/stats/hits42",
     "http://a.com/index.html", "http://a.com/img/p7.png", "http://a.com/api?name=seg1",
     "http://a.com/parts/list", ""}

ClassifyMimes ==
    {"", "video/mp2t", "application/vnd.apple.mpegURL", "application/octet-stream",
     "Video/MP4", "application/x-mpegurl", "text/html", "image/png"}

ClassifyArgs == {[fn |-> "is_streaming_url", url |-> u, mime_type |-> m] : u \in ClassifyUrls, m \in ClassifyMimes}

\* a numbered file name: a prefix, the index written in at least width
\* digits, a suffix
SequenceTemplates ==
    {[prefix |-> "seg/file", width |-> 4, suffix |-> ".ts"],
     [prefix |-> "http://media.y/v/seg", width |-> 1, suffix |-> ".ts"],
     [prefix |-> "http://cdn1.x/hls/v2_chunk", width |-> 3, suffix |-> ".m4s?t=99999"]}

RECURSIVE Pad(_, _)
Pad(digits, width) == IF Len(digits) >= width THEN digits ELSE Pad("0" \o digits, width)

TemplateUrl(t, i) == t.prefix \o Pad(ToString(i), t.width) \o t.suffix

\* the most files of one template
MaxN == 12

\* the files 1..n of a template, in index order
Numbered(t, n) == [i \in 1..n |-> TemplateUrl(t, i)]

Reverse(q) == [i \in 1..Len(q) |-> q[Len(q) + 1 - i]]

Rotate(q) == IF q = <<>> THEN q ELSE Tail(q) \o <<Head(q)>>

\* the files 1..n in three orders, with one file twice, with one file
\* missing, with a far file, and followed by files of another template
SequenceLists ==
    UNION {{Numbered(t, n), Reverse(Numbered(t, n)), Rotate(Numbered(t, n)),
            Append(Numbered(t, n), TemplateUrl(t, 1)),
            SelectSeq(Numbered(t, n), LAMBDA u : u # TemplateUrl(t, 2)),
            Append(Numbered(t, n), TemplateUrl(t, n + 50))}
           : t \in SequenceTemplates, n \in 0..MaxN}
    \cup {Numbered(t, n) \o Numbered(u, 3) : t \in SequenceTemplates, u \in SequenceTemplates, n \in 0..MaxN}

\* n indices: 1 .. n-1 and then one that lies gap above n-1
Ramp(n, gap) == [i \in 1..n |-> IF i = n /\ n > 1 THEN n - 1 + gap ELSE i]

\* the gaps tried after the last neighbour: at, just above and far above
\* the 10 of line 196
RampGaps == {1, 10, 11, 46}

\* index lists with repeats, out of order, and with a gap in the middle
RepeatedIndexLists ==
    {<<1, 2, 3, 50>>, <<50, 4, 3, 2, 1>>, <<1, 1, 1>>, <<7, 7>>, <<1, 1, 50>>, <<1, 12, 23>>,
     <<1, 11, 21>>, <<5, 5, 5, 5, 5, 5, 5, 5, 5, 70>>, <<5, 5, 5, 5, 5, 5, 5, 5, 70>>,
     <<1, 2, 30, 31, 32, 33, 34, 35, 36, 37>>, <<3, 2, 1, 3, 2, 1>>}

IndexLists == {Ramp(n, gap) : n \in 0..MaxN, gap \in RampGaps} \cup RepeatedIndexLists

\* the files of a template with the indices of a list, in the list's order
Indexed(t, q) == [i \in 1..Len(q) |-> TemplateUrl(t, q[i])]

\* the index lists of the first and of the second template of a list that
\* holds files of two templates
FirstIndexLists == {<<1, 2, 3>>, <<1, 2, 3, 4, 50>>, Ramp(10, 46)}

SecondIndexLists == {<<1, 2, 3>>, <<1, 2, 3, 4, 50>>, <<7, 7>>}

\* the groups a list of URLs is built from: one or two templates, each with
\* its index list
GroupPlans ==
    {<<[template |-> t, indices |-> q]>> : t \in SequenceTemplates, q \in IndexLists}
    \cup {<<[template |-> t, indices |-> q], [template |-> u, indices |-> r]>> :
            t \in SequenceTemplates, u \in SequenceTemplates, q \in FirstIndexLists, r \in SecondIndexLists}

\* the URLs of a plan: the files of its first group, then those of its
\* second
PlanUrls(plan) ==
    IF Len(plan) = 1 THEN Indexed(plan[1].template, plan[1].indices)
    ELSE Indexed(plan[1].template, plan[1].indices) \o Indexed(plan[2].template, plan[2].indices)

PlannedLists == {PlanUrls(plan) : plan \in {p \in GroupPlans : Len(p) = 1 \/ p[1].template # p[2].template}}

SequenceArgs == {[fn |-> "analyze_sequential_files", urls |-> q] : q \in SequenceLists \cup PlannedLists}

SequenceUrls == UNION {SeqRange(q) : q \in SequenceLists \cup PlannedLists}

\* The end-to-end scenario: one playlist, fifteen .ts segments of 200,000
\* bytes and one video.min.js, the segments named in one of three ways
\* (numbered, all alike, numbered on a host that is not a CDN-like name),
\* with or without a MIME type, the playlist and the script at any place.
ScenarioSegmentUrls ==
    {[i \in 1..15 |-> "http://media.y/v/seg" \o ToString(i) \o ".ts"],
     [i \in 1..15 |-> "http://media.y/v/seg1.ts"],
     [i \in 1..15 |-> "http://a.com/hls/file" \o Pad(ToString(i), 4) \o ".ts"]}

ScenarioMimes == {"video/mp2t", ""}

ScenarioSegments == {[i \in 1..15 |-> Entry(urls[i], m, 200000, <<>>)] : urls \in ScenarioSegmentUrls, m \in ScenarioMimes}

InsertAt(q, after, e) == SubSeq(q, 1, after) \o <<e>> \o SubSeq(q, after + 1, Len(q))

ScenarioLists ==
    {InsertAt(InsertAt(segments, after, PlaylistEntry), script, PlayerEntry) :
        segments \in ScenarioSegments, after \in 0..15, script \in {0, 16}}

ScenarioCaptures == {JText(CaptureDoc(q)) : q \in ScenarioLists}

ScenarioEntries == UNION {SeqRange(q) : q \in ScenarioSegments}

\* Captures for the narrative text: playlists whose URL is 100, 101 or 150
\* characters long, one of them a URL without any slash that also names a
\* player script, beside entries of the catalog.
FillerText ==
    "aaaaaaaaaaaaaaaaaaaaaaaaaaaaaaaaaaaaaaaaaaaaaaaaaaaaaaaaaaaaaaaaaaaaaaaaaaaaaaaaaaaaaaaaaaaaaaaaaaaaaaaaaaaaaaaaaaaaaaaaaaaaaaaaaaaaaaaaaaaaaaaaaaaaaaaaaa"

Filler(n) == SubSeq(FillerText, 1, n)

\* "http://cdn1.x/hls/" is 18 characters, "/master.m3u8" is 12
LongPlaylistUrl(n) == "http://cdn1.x/hls/" \o Filler(n - 30) \o "/master.m3u8"

\* "player.js?src=" is 14 characters, ".m3u8" is 5
BarePlaylistUrl(n) == "player.js?src=" \o Filler(n - 19) \o ".m3u8"

PlaylistLengths == {100, 101, 150}

NarrativeEntries ==
    {Entry(LongPlaylistUrl(n), "application/vnd.apple.mpegurl", 1200, <<>>) : n \in PlaylistLengths}
    \cup {Entry(BarePlaylistUrl(n), "", 1200, <<>>) : n \in PlaylistLengths}
    \cup {PlaylistEntry, SegmentEntry, PlayerEntry, PageEntry}

NarrativeLists ==
    {<<e>> : e \in NarrativeEntries}
    \cup {<<e, f>> : e \in NarrativeEntries, f \in NarrativeEntries}
    \cup {Repeat(SegmentEntry, 5) \o <<e>> : e \in NarrativeEntries}

NarrativeCaptures == {JText(CaptureDoc(q)) : q \in NarrativeLists}

\* Captures for the routing of the loop: an entry of every classifier tag,
\* on hosts that are and are not CDN-like names, an entry whose URL has no
\* host, one without a url and one without a size.
SecondPlaylistEntry == Entry("http://a.com/live/index.m3u8", "", 900, <<>>)

ClipEntry == Entry("HTTP://A.COM/V/CLIP.MP4", "video/mp4", 700000, <<>>)

ManifestEntry == Entry("http://a.com/d/init.mpd", "application/dash+xml", 4000, <<>>)

MimeOnlyEntry == Entry("http://a.com/get?id=7", "video/mp4", 900, <<>>)

ChunkEntry == Entry("http://a.com/v/chunk-7", "", 500, <<>>)

NoHostEntry == Entry("/v/seg2.ts", "video/mp2t", 800, <<Header("CF-Ray", "8a2")>>)

NoUrlEntry ==
    JDict([request |-> JDict([headers |-> JList(<<>>)]),
           response |-> JDict([headers |-> JList(<<>>),
                               content |-> JDict([mimeType |-> JStr("video/mp4"),
                                                  size |-> JInt(300)])])])

NoSizeEntry ==
    JDict([request |-> JDict([url |-> JStr("http://media.y/v/a.webm"), headers |-> JList(<<>>)]),
           response |-> JDict([headers |-> JList(<<>>),
                               content |-> JDict([mimeType |-> JStr("video/webm")])])])

RouteEntries ==
    {PlaylistEntry, SecondPlaylistEntry, SegmentEntry, ClipEntry, ManifestEntry, MimeOnlyEntry,
     ChunkEntry, PageEntry, NoHostEntry, NoUrlEntry, NoSizeEntry}

\* the most entries of a routing capture
MaxRouteEntries == 2

RECURSIVE RouteLists(_)
RouteLists(k) ==
    IF k = 0 THEN {<<>>}
    ELSE RouteLists(k - 1) \cup {Append(q, e) : q \in RouteLists(k - 1), e \in RouteEntries}

RouteCaptures == {JText(CaptureDoc(q)) : q \in RouteLists(MaxRouteEntries)}

\* Captures of numbered files: for each of the three templates no file,
\* 3, 5 or 10 files numbered from 1, the templates in either order, so
\* that a capture holds from no to three groups of at least 5 members.
PatternIndexLists == {<<>>, <<1, 2, 3>>, <<1, 2, 3, 4, 5>>, <<1, 2, 3, 4, 5, 6, 7, 8, 9, 10>>}

TemplateOfWidth(w) == CHOOSE t \in SequenceTemplates : t.width = w

PatternTemplateOrders ==
    {<<TemplateOfWidth(4), TemplateOfWidth(1), TemplateOfWidth(3)>>,
     <<TemplateOfWidth(3), TemplateOfWidth(1), TemplateOfWidth(4)>>}

PatternEntry(url) == Entry(url, "", 1000, <<>>)

PatternFiles(t, q) == [i \in 1..Len(q) |-> PatternEntry(TemplateUrl(t, q[i]))]

PatternLists ==
    {PatternFiles(o[1], a) \o PatternFiles(o[2], b) \o PatternFiles(o[3], c) :
        o \in PatternTemplateOrders, a \in PatternIndexLists, b \in PatternIndexLists, c \in PatternIndexLists}

PatternCaptures == {JText(CaptureDoc(q)) : q \in PatternLists}

PatternEntries == UNION {SeqRange(q) : q \in PatternLists}

EntryUniverse ==
    EntryCatalog \cup ShapeEntries \cup {ZeroFilled(e) : e \in AbsentFieldEntries} \cup ScenarioEntries
    \cup NarrativeEntries \cup RouteEntries \cup PatternEntries

-----------------------------------------------------------------------------
(* The per-entry and per-URL steps, tabulated over the entries and URLs    *)
(* of the catalogs (an input outside the catalogs is computed directly).   *)

\* table[key] when the table holds key, else the value computed directly
Tabulated(table, key, direct) == IF key \in DOMAIN table THEN table[key] ELSE direct

EntryErrors == [e \in EntryUniverse |-> EntryError(e)]

EntryErrorOf(e) == Tabulated(EntryErrors, e, EntryError(e))

Completing(errors) == {e \in DOMAIN errors : errors[e] = ""}

Observations == [e \in Completing(EntryErrors) |-> Observe(e)]

ObservationOf(e) == Tabulated(Observations, e, Observe(e))

UrlsOf(observations) == {observations[e].url : e \in DOMAIN observations}

UrlUniverse == UrlsOf(Observations) \cup SequenceUrls

FileKeys == [u \in UrlUniverse |-> FileKey(u)]

FileKeyOf(url) == Tabulated(FileKeys, url, FileKey(url))

-----------------------------------------------------------------------------
(* The sequence pattern detector: grouping and continuity                 *)

\* file_numbers[pattern].append(n): a dict in insertion order, held as a
\* sequence of [pattern, numbers]
AppendNumber(file_numbers, pattern, n) ==
    IF \E i \in 1..Len(file_numbers) : file_numbers[i].pattern = pattern
    THEN [i \in 1..Len(file_numbers) |->
            IF file_numbers[i].pattern = pattern
            THEN [file_numbers[i] EXCEPT !.numbers = Append(@, n)]
            ELSE file_numbers[i]]
    ELSE Append(file_numbers, [pattern |-> pattern, numbers |-> <<n>>])

RECURSIVE CollectFileNumbers(_, _, _)
CollectFileNumbers(urls, i, file_numbers) ==
    IF i > Len(urls) THEN file_numbers
    ELSE LET k == FileKeyOf(urls[i])
         IN  CollectFileNumbers(urls, i + 1,
                IF k.numbered THEN AppendNumber(file_numbers, k.pattern, k.seq_num)
                ELSE file_numbers)

\* sorted(set(numbers))
RECURSIVE SortedSeq(_)
SortedSeq(S) == IF S = {} THEN <<>> ELSE <<Min(S)>> \o SortedSeq(S \ {Min(S)})

RECURSIVE SumSeq(_)
SumSeq(q) == IF q = <<>> THEN 0 ELSE Head(q) + SumSeq(Tail(q))

\* The gap above which a group is not sequential (line 196) and the sizes
\* a group needs (lines 188, 199)
MaxGap == 10

MinGroupSize == 3

LargeGroupSize == 10

\* the gaps between the neighbours of a sorted list
Gaps(numbers_sorted) ==
    [i \in 1..(Len(numbers_sorted) - 1) |-> numbers_sorted[i + 1] - numbers_sorted[i]]

\* a gap of MaxGap itself taken as a break
Sequential_BreakAtMaxGap(gaps) == \A i \in 1..Len(gaps) : gaps[i] < MaxGap

\* line 196: no gap above MaxGap
Sequential(gaps) == \A i \in 1..Len(gaps) : ~(gaps[i] > MaxGap)

\* Lines 188-206 for one group: avg_gap is the fraction <<sum, count>> of
\* the quotient sum(gaps) / len(gaps), <<0, 1>> for the literal 0.
GapsInfo(g, gaps) ==
    [pattern |-> g.pattern,
     reported |-> Len(g.numbers) >= MinGroupSize
                    /\ (Sequential(gaps) \/ Len(g.numbers) >= LargeGroupSize),
     count |-> Len(g.numbers),
     min |-> Min(SeqRange(g.numbers)),
     max |-> Max(SeqRange(g.numbers)),
     is_sequential |-> Sequential(gaps),
     avg_gap |-> IF Len(gaps) > 0 THEN <<SumSeq(gaps), Len(gaps)>> ELSE <<0, 1>>]

GroupInfo(g) == GapsInfo(g, Gaps(SortedSeq(SeqRange(g.numbers))))

ReportedInfo(info) == [pattern |-> info.pattern, count |-> info.count, min |-> info.min,
                       max |-> info.max, is_sequential |-> info.is_sequential,
                       avg_gap |-> info.avg_gap]

\* The dict analyze_sequential_files returns, in insertion order, as a
\* sequence of [pattern, count, min, max, is_sequential, avg_gap]
ReportGroups(infos) ==
    [i \in 1..Len(SelectSeq(infos, LAMBDA info : info.reported)) |->
        ReportedInfo(SelectSeq(infos, LAMBDA info : info.reported)[i])]

GroupInfos(file_numbers) == [i \in 1..Len(file_numbers) |-> GroupInfo(file_numbers[i])]

analyze_sequential_files(urls) == ReportGroups(GroupInfos(CollectFileNumbers(urls, 1, <<>>)))

-----------------------------------------------------------------------------
(* The aggregation pass and the scorer                                     *)

\* One line of result.summary or of detection_reasons: which f-string
\* made it, the text it interpolates and the numbers it interpolates.
Line(label, text, nums) == [label |-> label, text |-> text, nums |-> nums]

\* list(a_set): Python iterates a set of strs in the order the process's
\* string hashing gives; hash_seed lists the strs in that order.
ListOfSet(S, seed) == SelectSeq(seed, LAMBDA d : d \in S)

\* cdn_detections[name].append(obs): a dict in insertion order, held as a
\* sequence of [name, observations]
AppendDetection(cdn_detections, hit) ==
    LET obs == [domain |-> hit.domain, header |-> hit.header, value |-> hit.value]
    IN  IF \E i \in 1..Len(cdn_detections) : cdn_detections[i].name = hit.name
        THEN [i \in 1..Len(cdn_detections) |->
                IF cdn_detections[i].name = hit.name
                THEN [cdn_detections[i] EXCEPT !.observations = Append(@, obs)]
                ELSE cdn_detections[i]]
        ELSE Append(cdn_detections, [name |-> hit.name, observations |-> <<obs>>])

RECURSIVE AppendDetections(_, _, _)
AppendDetections(cdn_detections, hits, i) ==
    IF i > Len(hits) THEN cdn_detections
    ELSE AppendDetections(AppendDetection(cdn_detections, hits[i]), hits, i + 1)

\* the tag ts left out of the list of line 289
SegmentTags_NoTs == {"mp4", "webm", "m4s"}

\* line 289: the extension tags that count as segments
SegmentTags == {"ts", "mp4", "webm", "m4s"}

\* The accumulators as lines 214-238 create them
NewAccumulators ==
    [domains_set |-> {}, cdn_detections |-> <<>>, all_urls |-> <<>>,
     segment_urls |-> <<>>, video_urls |-> <<>>, player_scripts |-> <<>>,
     streaming_domains |-> {}, total_segment_size |-> 0,
     playlist_url |-> None, detection_reasons |-> <<>>]

\* the loop body with the first playlist kept instead of the last
ProcessEntry_FirstPlaylistWins(acc, o) ==
    LET is_stream == o.stream[1]
        stream_type == o.stream[2]
        segment == is_stream /\ stream_type # "m3u8"
                     /\ (stream_type = "segment" \/ stream_type \in SegmentTags)
        playlist == is_stream /\ stream_type = "m3u8"
        reasons1 == IF playlist
                    THEN Append(acc.detection_reasons, Line("playlist_found", Prefix(o.url, 80), <<>>))
                    ELSE acc.detection_reasons
        reasons2 == IF o.player
                    THEN Append(reasons1, Line("player_script_found", LastSegment(o.url), <<>>))
                    ELSE reasons1
    IN  [domains_set |-> IF o.domain # "" THEN acc.domains_set \cup {o.domain} ELSE acc.domains_set,
         cdn_detections |-> AppendDetections(acc.cdn_detections, o.cdn, 1),
         all_urls |-> Append(acc.all_urls, o.url),
         segment_urls |-> IF segment THEN Append(acc.segment_urls, o.url) ELSE acc.segment_urls,
         video_urls |-> IF is_stream /\ ~playlist /\ ~segment
                        THEN Append(acc.video_urls, o.url) ELSE acc.video_urls,
         player_scripts |-> IF o.player THEN Append(acc.player_scripts, o.url) ELSE acc.player_scripts,
         streaming_domains |-> acc.streaming_domains
                                 \cup (IF is_stream THEN {o.domain} ELSE {})
                                 \cup (IF o.suspicious THEN {o.domain} ELSE {}),
         total_segment_size |-> IF segment THEN acc.total_segment_size + o.content_size
                                ELSE acc.total_segment_size,
         playlist_url |-> IF playlist /\ acc.playlist_url = None THEN o.url ELSE acc.playlist_url,
         detection_reasons |-> reasons2]

\* Lines 242-302: the loop body on the accumulators
ProcessEntry(acc, o) ==
    LET is_stream == o.stream[1]
        stream_type == o.stream[2]
        segment == is_stream /\ stream_type # "m3u8"
                     /\ (stream_type = "segment" \/ stream_type \in SegmentTags)
        playlist == is_stream /\ stream_type = "m3u8"
        reasons1 == IF playlist
                    THEN Append(acc.detection_reasons, Line("playlist_found", Prefix(o.url, 80), <<>>))
                    ELSE acc.detection_reasons
        reasons2 == IF o.player
                    THEN Append(reasons1, Line("player_script_found", LastSegment(o.url), <<>>))
                    ELSE reasons1
    IN  [domains_set |-> IF o.domain # "" THEN acc.domains_set \cup {o.domain} ELSE acc.domains_set,
         cdn_detections |-> AppendDetections(acc.cdn_detections, o.cdn, 1),
         all_urls |-> Append(acc.all_urls, o.url),
         segment_urls |-> IF segment THEN Append(acc.segment_urls, o.url) ELSE acc.segment_urls,
         video_urls |-> IF is_stream /\ ~playlist /\ ~segment
                        THEN Append(acc.video_urls, o.url) ELSE acc.video_urls,
         player_scripts |-> IF o.player THEN Append(acc.player_scripts, o.url) ELSE acc.player_scripts,
         streaming_domains |-> acc.streaming_domains
                                 \cup (IF is_stream THEN {o.domain} ELSE {})
                                 \cup (IF o.suspicious THEN {o.domain} ELSE {}),
         total_segment_size |-> IF segment THEN acc.total_segment_size + o.content_size
                                ELSE acc.total_segment_size,
         playlist_url |-> IF playlist THEN o.url ELSE acc.playlist_url,
         detection_reasons |-> reasons2]

RECURSIVE Aggregate(_, _, _)
Aggregate(acc, entries, i) ==
    IF i > Len(entries) THEN acc
    ELSE Aggregate(ProcessEntry(acc, ObservationOf(entries[i])), entries, i + 1)

\* ', '.join(q)
RECURSIVE Join(_)
Join(q) ==
    IF Len(q) = 0 THEN ""
    ELSE IF Len(q) = 1 THEN q[1] ELSE q[1] \o ", " \o Join(Tail(q))

\* segment_domains.count(d)
CountOf(q, d) == Cardinality({i \in 1..Len(q) : q[i] = d})

\* max(set(q), key=q.count): the first most frequent member in the set's
\* iteration order
MostFrequent(q, seed) ==
    LET order == ListOfSet(SeqRange(q), seed)
        best == Max({CountOf(q, order[i]) : i \in 1..Len(order)})
    IN  order[Min({i \in 1..Len(order) : CountOf(q, order[i]) = best})]

\* f"{n / (1024 * 1024):.1f}": the tenths of a MiB in n bytes, rounded
\* half to even as the float formatter rounds
TenthsOfMiB(n) ==
    LET q == (n * 10) \div 1048576
        r == (n * 10) % 1048576
    IN  IF 2 * r > 1048576 \/ (2 * r = 1048576 /\ q % 2 = 1) THEN q + 1 ELSE q

\* Lines 307-313 and 326-331: the groups of at least 5 members
LargeGroups(sequential_analysis) == SelectSeq(sequential_analysis, LAMBDA info : info.count >= 5)

\* Lines 333-339
CdnDomain(streaming_domains, segment_urls, seed) ==
    IF streaming_domains # {} THEN ListOfSet(streaming_domains, seed)[1]
    ELSE IF Len(segment_urls) > 0
         THEN MostFrequent([i \in 1..Len(segment_urls) |-> extract_domain(segment_urls[i])], seed)
         ELSE None

\* Lines 363-370: the points of the first group, in the dict's order, that
\* has at least 5 members
SequentialPoints(sequential_analysis) ==
    LET large == LargeGroups(sequential_analysis)
    IN  IF Len(large) = 0 THEN 0
        ELSE IF large[1].count >= 10 THEN 30 ELSE 15

\* Lines 345-379: the points, rule by rule
ConfidenceScore(playlist_url, total_segments, player_scripts, sequential_analysis, streaming_domains, total_segment_size) ==
      (IF playlist_url # None /\ playlist_url # "" THEN 40 ELSE 0)
    + (IF total_segments >= 10 THEN 35 ELSE IF total_segments >= 3 THEN 20 ELSE 0)
    + (IF Len(player_scripts) > 0 THEN 15 ELSE 0)
    + SequentialPoints(sequential_analysis)
    + (IF streaming_domains # {} THEN 10 ELSE 0)
    + (IF total_segment_size > 1024 * 1024 THEN 10 ELSE 0)

\* ConfidenceLevel without the final else: the level stays at the
\* dataclass default
ConfidenceLevel_NoElse(confidence_score) ==
    IF confidence_score >= 60 THEN [confidence |-> "HIGH", is_streaming_provider |-> TRUE]
    ELSE IF confidence_score >= 30 THEN [confidence |-> "MEDIUM", is_streaming_provider |-> TRUE]
    ELSE IF confidence_score >= 15 THEN [confidence |-> "LOW", is_streaming_provider |-> TRUE]
    ELSE [confidence |-> "LOW", is_streaming_provider |-> FALSE]

\* ConfidenceLevel with the verdict of the LOW branch left at its default
ConfidenceLevel_LowNoVerdict(confidence_score) ==
    IF confidence_score >= 60 THEN [confidence |-> "HIGH", is_streaming_provider |-> TRUE]
    ELSE IF confidence_score >= 30 THEN [confidence |-> "MEDIUM", is_streaming_provider |-> TRUE]
    ELSE IF confidence_score >= 15 THEN [confidence |-> "LOW", is_streaming_provider |-> FALSE]
    ELSE [confidence |-> "NONE", is_streaming_provider |-> FALSE]

\* Lines 382-393
ConfidenceLevel(confidence_score) ==
    IF confidence_score >= 60 THEN [confidence |-> "HIGH", is_streaming_provider |-> TRUE]
    ELSE IF confidence_score >= 30 THEN [confidence |-> "MEDIUM", is_streaming_provider |-> TRUE]
    ELSE IF confidence_score >= 15 THEN [confidence |-> "LOW", is_streaming_provider |-> TRUE]
    ELSE [confidence |-> "NONE", is_streaming_provider |-> FALSE]

\* RuleReasons with the size rule's reason put before the playlist rule's
RuleReasons_SizeFirst(playlist_url, total_segments, player_scripts, streaming_domains, total_segment_size, seed) ==
       (IF total_segment_size > 1024 * 1024
        THEN <<Line("rule_size", "", <<TenthsOfMiB(total_segment_size)>>)>> ELSE <<>>)
    \o (IF playlist_url # None /\ playlist_url # "" THEN <<Line("rule_playlist", "", <<>>)>> ELSE <<>>)
    \o (IF total_segments >= 3 THEN <<Line("rule_segments", "", <<total_segments>>)>> ELSE <<>>)
    \o (IF Len(player_scripts) > 0 THEN <<Line("rule_player", "", <<Len(player_scripts)>>)>> ELSE <<>>)
    \o (IF streaming_domains # {}
        THEN <<Line("rule_domains",
                    Join(SubSeq(ListOfSet(streaming_domains, seed), 1,
                                Min({3, Cardinality(streaming_domains)}))), <<>>)>>
        ELSE <<>>)

\* Lines 348-379: the reasons the rules add, in the order of the rules
RuleReasons(playlist_url, total_segments, player_scripts, streaming_domains, total_segment_size, seed) ==
       (IF playlist_url # None /\ playlist_url # "" THEN <<Line("rule_playlist", "", <<>>)>> ELSE <<>>)
    \o (IF total_segments >= 3 THEN <<Line("rule_segments", "", <<total_segments>>)>> ELSE <<>>)
    \o (IF Len(player_scripts) > 0 THEN <<Line("rule_player", "", <<Len(player_scripts)>>)>> ELSE <<>>)
    \o (IF streaming_domains # {}
        THEN <<Line("rule_domains",
                    Join(SubSeq(ListOfSet(streaming_domains, seed), 1,
                                Min({3, Cardinality(streaming_domains)}))), <<>>)>>
        ELSE <<>>)
    \o (IF total_segment_size > 1024 * 1024
        THEN <<Line("rule_size", "", <<TenthsOfMiB(total_segment_size)>>)>> ELSE <<>>)

\* Lines 396-423: the lines of the summary
SummaryLines(total_requests, unique_domains, ev, player_scripts, sequential_analysis, level, confidence_score) ==
       <<Line("total_requests", "", <<total_requests>>),
         Line("domains", "", <<Len(unique_domains)>>)>>
    \o (IF ev.total_segments > 0 THEN <<Line("segments", "", <<ev.total_segments>>)>> ELSE <<>>)
    \o (IF ev.playlist_url # None /\ ev.playlist_url # "" THEN <<Line("playlist", "", <<>>)>> ELSE <<>>)
    \o (IF Len(player_scripts) > 0 THEN <<Line("player_scripts", "", <<Len(player_scripts)>>)>> ELSE <<>>)
    \o (LET large == LargeGroups(sequential_analysis)
        IN  IF Len(large) > 0
            THEN <<Line("sequential_pattern", large[1].pattern, <<large[1].count>>)>> ELSE <<>>)
    \o (IF ev.cdn_domain # None /\ ev.cdn_domain # "" THEN <<Line("cdn", ev.cdn_domain, <<>>)>> ELSE <<>>)
    \o (IF level.is_streaming_provider
        THEN <<Line("", "", <<>>), Line("verdict", "", <<>>),
               Line("confidence", level.confidence, <<confidence_score>>)>>
        ELSE <<>>)

\* the sequential groups left out of the count
TotalSegments_UrlsOnly(segment_urls, large) == Len(segment_urls)

\* Lines 326-331
TotalSegments(segment_urls, large) ==
    Max({Len(segment_urls)} \cup {large[i].count : i \in 1..Len(large)})

\* Lines 307-313
SequentialReasons(large) ==
    [i \in 1..Len(large) |->
        Line("sequential_found", large[i].pattern, <<large[i].count, large[i].min, large[i].max>>)]

\* The StreamingEvidence lines 319-339 fill in
Evidence(acc, seed, large) ==
    [playlist_url |-> acc.playlist_url,
     segment_urls |-> acc.segment_urls,
     video_urls |-> acc.video_urls,
     player_scripts |-> acc.player_scripts,
     player_domain |-> None,
     cdn_domain |-> CdnDomain(acc.streaming_domains, acc.segment_urls, seed),
     total_segments |-> TotalSegments(acc.segment_urls, large),
     segment_pattern |-> IF Len(large) > 0 THEN large[Len(large)].pattern ELSE None,
     segment_size_total |-> acc.total_segment_size]

\* Lines 412-425
Result(total_requests, acc, seed, sequential_analysis, ev, confidence_score, level) ==
    [outcome |-> "result",
     total_requests |-> total_requests,
     unique_domains |-> ListOfSet(acc.domains_set, seed),
     streaming_evidence |-> ev,
     request_flow |-> <<>>,
     cdn_detection |-> acc.cdn_detections,
     is_streaming_provider |-> level.is_streaming_provider,
     confidence |-> level.confidence,
     summary |-> SummaryLines(total_requests, ListOfSet(acc.domains_set, seed), ev,
                              acc.player_scripts, sequential_analysis, level, confidence_score),
     detection_reasons |-> acc.detection_reasons
                             \o SequentialReasons(LargeGroups(sequential_analysis))
                             \o RuleReasons(ev.playlist_url, ev.total_segments, acc.player_scripts,
                                            acc.streaming_domains, acc.total_segment_size, seed),
     confidence_score |-> confidence_score]

\* Lines 381-393
Levelled(total_requests, acc, seed, sequential_analysis, ev, confidence_score) ==
    Result(total_requests, acc, seed, sequential_analysis, ev, confidence_score,
           ConfidenceLevel(confidence_score))

\* Lines 319-379
Scored(total_requests, acc, seed, sequential_analysis, ev) ==
    Levelled(total_requests, acc, seed, sequential_analysis, ev,
             ConfidenceScore(ev.playlist_url, ev.total_segments, acc.player_scripts,
                             sequential_analysis, acc.streaming_domains, acc.total_segment_size))

\* Lines 304-339
Sequenced(total_requests, acc, seed, sequential_analysis) ==
    Scored(total_requests, acc, seed, sequential_analysis,
           Evidence(acc, seed, LargeGroups(sequential_analysis)))

\* Lines 304-425 on the accumulators the loop leaves
Finish(total_requests, acc, seed) ==
    Sequenced(total_requests, acc, seed, analyze_sequential_files(acc.all_urls))

\* The HARAnalysisResult line 227 returns: the dataclass defaults and the
\* failure summary
ParseFailure(error) ==
    [outcome |-> "parse_failure",
     total_requests |-> 0,
     unique_domains |-> <<>>,
     streaming_evidence |-> None,
     request_flow |-> <<>>,
     cdn_detection |-> <<>>,
     is_streaming_provider |-> FALSE,
     confidence |-> "LOW",
     summary |-> <<Line("parse_failure", error, <<>>)>>,
     detection_reasons |-> <<>>]

\* An exception that leaves analyze_har
Raised(error) == [outcome |-> "raised", exception |-> error]

\* len(entries) at line 229
HasLen(x) == x[1] \in {"list", "str", "dict"}

LenOf(x) == IF x[1] = "dict" THEN Cardinality(DOMAIN x[2]) ELSE Len(x[2])

\* Lines 241-425 on the entries the loop iterates
AnalyzeEntries(entries, errors, total_requests, seed) ==
    IF \E i \in 1..Len(errors) : errors[i] # ""
    THEN Raised(errors[Min({i \in 1..Len(errors) : errors[i] # ""})])
    ELSE Finish(total_requests, Aggregate(NewAccumulators, entries, 1), seed)

ErrorsOf(entries) == [i \in 1..Len(entries) |-> EntryErrorOf(entries[i])]

\* Lines 227-425 on the outcome of the guarded parse
AnalyzeParsed(parsed, seed) ==
    IF parsed.error # "" THEN ParseFailure(parsed.error)
    ELSE IF ~HasLen(parsed.entries) THEN Raised("TypeError")
    ELSE AnalyzeEntries(Items(parsed.entries), ErrorsOf(Items(parsed.entries)),
                        LenOf(parsed.entries), seed)

analyze_har(data, seed) == AnalyzeParsed(ParseHar(data), seed)

-----------------------------------------------------------------------------
(* The narrative text: "\n".join(lines), held as the sequence of its       *)
(* lines, each a Line of the f-string that made it.                        *)

\* f"{n / (1024 * 1024):.2f}": the hundredths of a MiB in n bytes
HundredthsOfMiB(n) ==
    IF 2 * ((n * 100) % 1048576) > 1048576
         \/ (2 * ((n * 100) % 1048576) = 1048576 /\ ((n * 100) \div 1048576) % 2 = 1)
    THEN (n * 100) \div 1048576 + 1
    ELSE (n * 100) \div 1048576

\* an Optional[str] that is neither None nor empty
NonEmpty(x) == x # None /\ x # ""

Blank == Line("blank", "", <<>>)

\* Lines 432-435
Banner == <<Line("rule", "", <<>>), Line("title", "", <<>>), Line("rule", "", <<>>), Blank>>

\* Lines 450-451: the reasons, numbered from 1
NumberedReasons(reasons) ==
    [i \in 1..Len(reasons) |-> Line("reason_" \o reasons[i].label, reasons[i].text, <<i>> \o reasons[i].nums)]

\* line 458: se.playlist_url[:100]
PlaylistShown(playlist_url) == Prefix(playlist_url, 100)

\* Lines 454-469, for the evidence line 341 sets in every result whose
\* verdict is true
InfrastructureLines(se) ==
           <<Line("infra_header", "", <<>>)>>
        \o (IF NonEmpty(se.playlist_url) THEN <<Line("infra_playlist", PlaylistShown(se.playlist_url), <<>>)>> ELSE <<>>)
        \o (IF NonEmpty(se.cdn_domain) THEN <<Line("infra_cdn", se.cdn_domain, <<>>)>> ELSE <<>>)
        \o <<Line("infra_segments", "", <<se.total_segments>>)>>
        \o (IF se.segment_size_total > 0
            THEN <<Line("infra_size", "", <<HundredthsOfMiB(se.segment_size_total)>>)>> ELSE <<>>)
        \o (IF NonEmpty(se.segment_pattern) THEN <<Line("infra_pattern", se.segment_pattern, <<>>)>> ELSE <<>>)
        \o (IF Len(se.player_scripts) > 0
            THEN <<Line("infra_players", "", <<Len(se.player_scripts)>>)>> ELSE <<>>)
        \o <<Blank>>

\* Lines 471-482
LegalLines(confidence) ==
    <<Line("legal_header", "", <<>>)>>
    \o (IF confidence = "HIGH"
        THEN <<Line("legal_high", "", <<>>), Line("legal_high_1", "", <<>>),
               Line("legal_high_2", "", <<>>), Line("legal_high_3", "", <<>>)>>
        ELSE IF confidence = "MEDIUM"
             THEN <<Line("legal_medium", "", <<>>), Line("legal_medium_1", "", <<>>),
                    Line("legal_medium_2", "", <<>>)>>
             ELSE <<Line("legal_other", "", <<>>)>>)

\* Lines 428-487
generate_har_evidence_text(r) ==
    IF ~r.is_streaming_provider
    THEN Banner \o <<Line("insufficient", "", <<>>), Blank>> \o r.summary \o <<Blank, Line("rule", "", <<>>)>>
    ELSE   Banner
        \o <<Line("summary_header", "", <<>>)>> \o r.summary \o <<Blank>>
        \o <<Line("reasons_header", "", <<>>)>> \o NumberedReasons(r.detection_reasons) \o <<Blank>>
        \o InfrastructureLines(r.streaming_evidence)
        \o LegalLines(r.confidence)
        \o <<Blank, Line("rule", "", <<>>)>>

-----------------------------------------------------------------------------
(* The engine as a state machine: a call is pending, then it has returned. *)

NoResult == [outcome |-> "none"]

NoArgs == [fn |-> "none"]

-----------------------------------------------------------------------------
(* The analysis history (app/history.py): a bounded deque of records and   *)
(* counters, a dict in insertion order held as a sequence of [key, count]. *)

\* history.py line 13: the default of max_size
DefaultMaxSize == 1000

\* Lines 13-19
AnalysisHistory(max_size) ==
    [records |-> <<>>,
     maxlen |-> max_size,
     stats |-> [total_analyses |-> 0, by_cdn |-> <<>>, by_risk_level |-> <<>>]]

\* deque(maxlen=m).append(x): with m = 0 nothing is kept; at m elements
\* the leftmost is dropped
DequeAppend(q, maxlen, x) ==
    IF maxlen = 0 THEN q
    ELSE IF Len(q) >= maxlen THEN Append(Tail(q), x)
    ELSE Append(q, x)

\* Lines 46-48 and 50-52: if key not in d: d[key] = 0; d[key] += 1
CountUp(d, key) ==
    IF \E i \in 1..Len(d) : d[i].key = key
    THEN [i \in 1..Len(d) |-> IF d[i].key = key THEN [d[i] EXCEPT !.count = @ + 1] ELSE d[i]]
    ELSE Append(d, [key |-> key, count |-> 1])

\* Lines 31-39
HistoryRecord(case_id, target_url, detected_cdn, domain_count, risk_score, risk_level, timestamp) ==
    [case_id |-> case_id, target_url |-> target_url, detected_cdn |-> detected_cdn,
     domain_count |-> domain_count, risk_score |-> risk_score, risk_level |-> risk_level,
     timestamp |-> timestamp]

\* Lines 41-52
add_record(h, record) ==
    [records |-> DequeAppend(h.records, h.maxlen, record),
     maxlen |-> h.maxlen,
     stats |-> [total_analyses |-> h.stats.total_analyses + 1,
                by_cdn |-> CountUp(h.stats.by_cdn, record.detected_cdn),
                by_risk_level |-> CountUp(h.stats.by_risk_level, record.risk_level)]]

\* q[start:] of a Python list: a negative start counts from the end, and
\* a start outside the list is clipped
SliceFrom(q, start) ==
    LET first == IF start < 0 THEN Max({Len(q) + start, 0}) ELSE Min({start, Len(q)})
    IN  SubSeq(q, first + 1, Len(q))

\* Line 56: list(self.records)[-limit:]
get_recent(h, limit) == SliceFrom(h.records, 0 - limit)

\* Line 60
get_stats(h) == h.stats

\* the orders in which a process may iterate the strs of S
Orders(S) == {q \in [1..Cardinality(S) -> S] : \A i, j \in 1..Cardinality(S) : q[i] = q[j] => i = j}

\* the domains of the entries the loop completes on
DomainsOf(entries) ==
    {ObservationOf(e).domain : e \in {x \in SeqRange(entries) : EntryErrorOf(x) = ""}}

MembersOf(parsed) ==
    IF parsed.error # "" \/ ~HasLen(parsed.entries) THEN {} ELSE DomainsOf(Items(parsed.entries))

\* the strs analyze_har may put in a set while it analyses the document
SetMembers(data) == MembersOf(ParseHar(data))

Init ==
    /\ har_data \in Captures
    /\ hash_seed \in Orders(SetMembers(har_data))
    /\ args = NoArgs
    /\ result = NoResult
    /\ prev_result = NoResult
    /\ pc = "ready"
    /\ analysis_history = AnalysisHistory(DefaultMaxSize)

\* POST /analyze-har: one call of analyze_har on the uploaded text
Analyze ==
    /\ pc = "ready"
    /\ result' = analyze_har(har_data, hash_seed)
    /\ pc' = "done"
    /\ UNCHANGED <<har_data, hash_seed, args, prev_result, analysis_history>>

Next == Analyze

Spec == Init /\ [][Next]_vars

\* The same call on the captures of the end-to-end scenario
InitScenario ==
    /\ har_data \in ScenarioCaptures
    /\ hash_seed \in Orders(SetMembers(har_data))
    /\ args = NoArgs
    /\ result = NoResult
    /\ prev_result = NoResult
    /\ pc = "ready"
    /\ analysis_history = AnalysisHistory(DefaultMaxSize)

NextScenario == Analyze

SpecScenario == InitScenario /\ [][NextScenario]_vars

\* The same call on the captures of numbered files
InitPatterns ==
    /\ har_data \in PatternCaptures
    /\ hash_seed \in Orders(SetMembers(har_data))
    /\ args = NoArgs
    /\ result = NoResult
    /\ prev_result = NoResult
    /\ pc = "ready"
    /\ analysis_history = AnalysisHistory(DefaultMaxSize)

NextPatterns == Analyze

SpecPatterns == InitPatterns /\ [][NextPatterns]_vars

\* The endpoint goes on to render the narrative text of the result
\* (main.py line 272)
InitNarrative ==
    /\ har_data \in NarrativeCaptures
    /\ hash_seed \in Orders(SetMembers(har_data))
    /\ args = NoArgs
    /\ result = NoResult
    /\ prev_result = NoResult
    /\ pc = "ready"
    /\ analysis_history = AnalysisHistory(DefaultMaxSize)

Render ==
    /\ pc = "done"
    /\ result.outcome \in {"result", "parse_failure"}
    /\ prev_result' = result
    /\ result' = [outcome |-> "text", lines |-> generate_har_evidence_text(result)]
    /\ pc' = "rendered"
    /\ UNCHANGED <<har_data, hash_seed, args, analysis_history>>

NextNarrative == Analyze \/ Render

SpecNarrative == InitNarrative /\ [][NextNarrative]_vars

\* The same call on the routing captures
InitRoute ==
    /\ har_data \in RouteCaptures
    /\ hash_seed \in Orders(SetMembers(har_data))
    /\ args = NoArgs
    /\ result = NoResult
    /\ prev_result = NoResult
    /\ pc = "ready"
    /\ analysis_history = AnalysisHistory(DefaultMaxSize)

NextRoute == Analyze

SpecRoute == InitRoute /\ [][NextRoute]_vars

\* The same call on documents of every shape
InitShapes ==
    /\ har_data \in ShapeDocs
    /\ hash_seed \in Orders(SetMembers(har_data))
    /\ args = NoArgs
    /\ result = NoResult
    /\ prev_result = NoResult
    /\ pc = "ready"
    /\ analysis_history = AnalysisHistory(DefaultMaxSize)

NextShapes == Analyze

SpecShapes == InitShapes /\ [][NextShapes]_vars

\* The same capture analysed again: by the same server process, or by a
\* process started afresh, whose str hashes are seeded anew.
Again ==
    /\ pc = "done"
    /\ prev_result = NoResult
    /\ prev_result' = result
    /\ result' = NoResult
    /\ pc' = "ready"
    /\ UNCHANGED <<har_data, hash_seed, args, analysis_history>>

Restart ==
    /\ pc = "done"
    /\ prev_result = NoResult
    /\ prev_result' = result
    /\ result' = NoResult
    /\ hash_seed' \in Orders(SetMembers(har_data))
    /\ pc' = "ready"
    /\ UNCHANGED <<har_data, args, analysis_history>>

NextRerun == Analyze \/ Again \/ Restart

SpecRerun == Init /\ [][NextRerun]_vars

\* the capture with one more entry at its end
WithEntry(data, e) == JText(CaptureDoc(Append(data[2][2].log[2].entries[2], e)))

\* A capture is analysed, then analysed with one more entry
AppendEntry(e) ==
    /\ pc = "done"
    /\ args = NoArgs
    /\ args' = [fn |-> "append", entry |-> e]
    /\ har_data' = WithEntry(har_data, e)
    /\ hash_seed' \in Orders(SetMembers(WithEntry(har_data, e)))
    /\ prev_result' = result
    /\ result' = NoResult
    /\ pc' = "ready"
    /\ UNCHANGED analysis_history

NextAppend == Analyze \/ \E e \in EntryCatalog : AppendEntry(e)

SpecAppend == Init /\ [][NextAppend]_vars

\* One call of is_streaming_url
InitClassify ==
    /\ args \in ClassifyArgs
    /\ har_data = JNull
    /\ hash_seed = <<>>
    /\ result = NoResult
    /\ prev_result = NoResult
    /\ pc = "ready"
    /\ analysis_history = AnalysisHistory(DefaultMaxSize)

Classify ==
    /\ pc = "ready"
    /\ args.fn = "is_streaming_url"
    /\ result' = [outcome |-> "returned", value |-> is_streaming_url(args.url, args.mime_type)]
    /\ pc' = "done"
    /\ UNCHANGED <<har_data, hash_seed, args, prev_result, analysis_history>>

NextClassify == Classify

SpecClassify == InitClassify /\ [][NextClassify]_vars

\* One call of analyze_sequential_files
InitSequence ==
    /\ args \in SequenceArgs
    /\ har_data = JNull
    /\ hash_seed = <<>>
    /\ result = NoResult
    /\ prev_result = NoResult
    /\ pc = "ready"
    /\ analysis_history = AnalysisHistory(DefaultMaxSize)

Detect ==
    /\ pc = "ready"
    /\ args.fn = "analyze_sequential_files"
    /\ result' = [outcome |-> "returned", value |-> analyze_sequential_files(args.urls)]
    /\ pc' = "done"
    /\ UNCHANGED <<har_data, hash_seed, args, prev_result, analysis_history>>

NextSequence == Detect

SpecSequence == InitSequence /\ [][NextSequence]_vars

\* The history of the service: analyses add records (main.py line 214)
\* and GET /history, GET /stats read it. The records carry one of two case
\* ids, CDN names and risk levels; datetime.now() is read as a logical
\* clock that ticks once per analysis, so that later records show as later.
MaxSize == 2

MaxAdds == 4

MaxLimit == 3

CaseIds == {"IDCTS-1", "IDCTS-2"}

CdnNames == {"Cloudflare", "Unknown"}

RiskLevels == {"HIGH", "LOW"}

Limits == -1..MaxLimit

InitHistory ==
    /\ analysis_history \in {AnalysisHistory(m) : m \in 0..MaxSize}
    /\ har_data = JNull
    /\ hash_seed = <<>>
    /\ args = NoArgs
    /\ result = NoResult
    /\ prev_result = NoResult
    /\ pc = "ready"

AddRecord ==
    /\ analysis_history.stats.total_analyses < MaxAdds
    /\ \E case_id \in CaseIds, detected_cdn \in CdnNames, risk_level \in RiskLevels :
          /\ args' = [fn |-> "add_record", case_id |-> case_id]
          /\ analysis_history' =
                add_record(analysis_history,
                           HistoryRecord(case_id, "http://a.com/", detected_cdn, 1, 50, risk_level,
                                         analysis_history.stats.total_analyses + 1))
    /\ result' = [outcome |-> "returned", value |-> None]
    /\ pc' = "done"
    /\ UNCHANGED <<har_data, hash_seed, prev_result>>

GetRecent ==
    /\ \E limit \in Limits :
          /\ args' = [fn |-> "get_recent", limit |-> limit]
          /\ result' = [outcome |-> "returned", value |-> get_recent(analysis_history, limit)]
    /\ pc' = "done"
    /\ UNCHANGED <<har_data, hash_seed, prev_result, analysis_history>>

GetStats ==
    /\ args' = [fn |-> "get_stats"]
    /\ result' = [outcome |-> "returned", value |-> get_stats(analysis_history)]
    /\ pc' = "done"
    /\ UNCHANGED <<har_data, hash_seed, prev_result, analysis_history>>

NextHistory == AddRecord \/ GetRecent \/ GetStats

SpecHistory == InitHistory /\ [][NextHistory]_vars

-----------------------------------------------------------------------------
(* Claims                                                                  *)

Analysed == pc = "done" /\ result.outcome = "result"

\* the score the verdict line of the summary reports
ReportedScores == {result.summary[i].nums[1] : i \in {j \in 1..Len(result.summary) : result.summary[j].label = "confidence"}}

\* C1: for every capture the confidence score analyze_har computes, and
\* reports in the verdict line of the summary, lies in 0..100.
C1_ScoreWithin0To100 ==
    Analysed => /\ result.confidence_score \in 0..100
                /\ \A n \in ReportedScores : n \in 0..100

\* C2: for every capture that parses, score >= 60 gives HIGH and a true
\* verdict, 30 <= score < 60 MEDIUM and true, 15 <= score < 30 LOW and
\* true, score < 15 NONE and a false verdict.
C2_LevelThresholds ==
    Analysed =>
        LET score == result.confidence_score
            level == <<result.confidence, result.is_streaming_provider>>
        IN  /\ score >= 60 => level = <<"HIGH", TRUE>>
            /\ (30 <= score /\ score < 60) => level = <<"MEDIUM", TRUE>>
            /\ (15 <= score /\ score < 30) => level = <<"LOW", TRUE>>
            /\ score < 15 => level = <<"NONE", FALSE>>
            /\ result.is_streaming_provider => ReportedScores = {score}

\* a capture analysed to a score of 15..29 (player script only, or a few
\* small segments)
C2_Witness == Analysed /\ result.confidence_score >= 15 /\ result.confidence_score < 30

\* the document an input holds
Document(data) == IF data[1] = "text" THEN data[2] ELSE data

\* the input is a document with a log that has a list of entries
HasEntryList(data) ==
    LET d == Document(data)
    IN  /\ d[1] = "dict"
        /\ "log" \in DOMAIN d[2]
        /\ d[2].log[1] = "dict"
        /\ "entries" \in DOMAIN d[2].log[2]
        /\ d[2].log[2].entries[1] = "list"

EntryList(data) == Document(data)[2].log[2].entries[2]

ZeroEntries == HasEntryList(har_data) /\ EntryList(har_data) = <<>>

\* C3: for every capture with zero entries the result has a total of 0
\* requests, a false verdict, confidence NONE and score 0.
C3_EmptyCapture ==
    (pc = "done" /\ ZeroEntries) =>
        /\ result.outcome = "result"
        /\ result.total_requests = 0
        /\ result.is_streaming_provider = FALSE
        /\ result.confidence = "NONE"
        /\ result.confidence_score = 0
        /\ ReportedScores = {}

C3_Witness == pc = "done" /\ ZeroEntries /\ result.outcome = "result" /\ result.total_requests = 0

\* the input is a JSON object without a log, or with a log that is an
\* object without an entry list
LogOrEntriesMissing ==
    LET d == Document(har_data)
    IN  /\ d[1] = "dict"
        /\ \/ "log" \notin DOMAIN d[2]
           \/ d[2].log[1] = "dict" /\ "entries" \notin DOMAIN d[2].log[2]

\* C4: when the input document has no log, or its log has no entries,
\* analyze_har ends in the parse-failure state: the result has 0 requests,
\* a false verdict and a summary that names the parse failure.
C4_MissingLogIsParseFailure ==
    (pc = "done" /\ LogOrEntriesMissing) =>
        /\ result.outcome = "parse_failure"
        /\ result.total_requests = 0
        /\ result.is_streaming_provider = FALSE
        /\ result.summary[1].label = "parse_failure"

\* C5: for every input text, analyze_har returns a result rather than
\* raising an error.
C5_NeverRaises == (pc = "done" /\ har_data[1] = "text") => result.outcome # "raised"

\* every entry is an object whose present fields have the types the code
\* expects, some fields being absent
AbsentFieldsOnly == HasEntryList(har_data) /\ \A i \in 1..Len(EntryList(har_data)) : EntryList(har_data)[i] \in AbsentFieldEntries

ZeroFilledCapture == JText(CaptureDoc([i \in 1..Len(EntryList(har_data)) |-> ZeroFilled(EntryList(har_data)[i])]))

\* C6: for every entry that lacks any of request, request.url,
\* request.headers, response, response.headers, response.content, mimeType
\* or size, the analysis completes, counts the entry in the total of
\* requests, and gives the result it gives with the absent fields written
\* as empty text, an empty list or zero.
C6_AbsentFieldsAreZero ==
    (pc = "done" /\ AbsentFieldsOnly) =>
        /\ result.outcome = "result"
        /\ result.total_requests = Len(EntryList(har_data))
        /\ result = analyze_har(ZeroFilledCapture, hash_seed)

\* an entry without a request and without a response content was analysed
C6_Witness ==
    /\ pc = "done" /\ AbsentFieldsOnly /\ result.outcome = "result"
    /\ \E i \in 1..Len(EntryList(har_data)) :
            /\ "request" \notin DOMAIN EntryList(har_data)[i][2]
            /\ "response" \in DOMAIN EntryList(har_data)[i][2]
            /\ "content" \notin DOMAIN EntryList(har_data)[i][2].response[2]
    /\ result.total_requests = Len(EntryList(har_data))

\* C7: running analyze_har twice on an identical capture yields results
\* equal in every field, also where a value is picked from an unordered
\* set.
C7_RerunIdentical == (pc = "done" /\ prev_result # NoResult) => result = prev_result

\* the entries that are segment files
SegmentFiles == {SegmentEntry, FarSegmentEntry}

\* the appended entry matches a scoring rule the capture satisfied before:
\* one more segment file after at least 3, one more playlist, one more
\* player script
MatchesSatisfiedRule ==
    \/ args.entry \in SegmentFiles /\ prev_result.streaming_evidence.total_segments >= 3
    \/ args.entry = PlaylistEntry /\ prev_result.streaming_evidence.playlist_url # None
    \/ args.entry = PlayerEntry /\ Len(prev_result.streaming_evidence.player_scripts) > 0

\* C8: for every capture C and every entry e that matches a scoring rule C
\* already satisfies, the score of C with e appended is not lower than
\* the score of C.
C8_AppendMonotone ==
    (/\ pc = "done" /\ args.fn = "append"
     /\ prev_result.outcome = "result" /\ result.outcome = "result"
     /\ MatchesSatisfiedRule)
        => result.confidence_score >= prev_result.confidence_score

\* What Python gives for the URLs of ClassifyUrls: the first listed
\* extension the lower-cased URL contains ("" when none), and whether a
\* segment pattern matches its path
ClassifyFacts ==
    {[url |-> "http://cdn1.x/hls/master.m3u8", extension |-> "m3u8", segment |-> FALSE],
     [url |-> "http://media.y/v/seg1.ts", extension |-> "ts", segment |-> TRUE],
     [url |-> "HTTP://MEDIA.Y/V/CLIP.MP4", extension |-> "mp4", segment |-> FALSE],
     [url |-> "http://a.com/play?file=a.webm", extension |-> "webm", segment |-> FALSE],
     [url |-> "http://a.com/v.ts?next=list.m3u8", extension |-> "m3u8", segment |-> FALSE],
     [url |-> "http://a.com/m/manifest.isml", extension |-> "ism", segment |-> FALSE],
     [url |-> "http://a.com/d/init.mpd", extension |-> "mpd", segment |-> FALSE],
     [url |-> "http://a.com/app.tsx", extension |-> "ts", segment |-> FALSE],
     [url |-> "http://media.y/v/segment_0001", extension |-> "", segment |-> TRUE],
     [url |-> "http://media.y/v/chunk-7", extension |-> "", segment |-> TRUE],
     [url |-> "http://a.com/img/0001.jpg", extension |-> "", segment |-> TRUE],
     [url |-> "http://a.com/img/abc001.gif", extension |-> "", segment |-> TRUE],
     [url |-> "http://a.com/v/Frag_12", extension |-> "", segment |-> TRUE],
     [url |-> "http://a.com/stats/hits42", extension |-> "", segment |-> TRUE],
     [url |-> "http://a.com/index.html", extension |-> "", segment |-> FALSE],
     [url |-> "http://a.com/img/p7.png", extension |-> "", segment |-> FALSE],
     [url |-> "http://a.com/api?name=seg1", extension |-> "", segment |-> FALSE],
     [url |-> "http://a.com/parts/list", extension |-> "", segment |-> FALSE],
     [url |-> "", extension |-> "", segment |-> FALSE]}

\* the MIME types of ClassifyMimes that hold one of mpegurl, m3u8, mp2t,
\* video, octet-stream when lower-cased
MatchingMimes ==
    {"video/mp2t", "application/vnd.apple.mpegURL", "application/octet-stream", "Video/MP4",
     "application/x-mpegurl"}

Classified == pc = "done" /\ args.fn = "is_streaming_url"

FactsOf(url) == CHOOSE f \in ClassifyFacts : f.url = url

\* C9: is_streaming_url checks extension, then MIME, then segment regex,
\* first match wins: a URL containing a listed extension returns
\* (True, extension without the dot, "extension") whatever the MIME type;
\* one with no listed extension and a matching MIME returns
\* (True, "mime", "mime_type") even when its path matches a segment
\* pattern; one matching none returns (False, "", "").
C9_CheckOrder ==
    Classified =>
        /\ FactsOf(args.url).extension # ""
              => result.value = <<TRUE, FactsOf(args.url).extension, "extension">>
        /\ (FactsOf(args.url).extension = "" /\ args.mime_type \in MatchingMimes)
              => result.value = <<TRUE, "mime", "mime_type">>
        /\ (FactsOf(args.url).extension = "" /\ args.mime_type \notin MatchingMimes
                /\ FactsOf(args.url).segment)
              => result.value = <<TRUE, "segment", "segment_pattern">>
        /\ (FactsOf(args.url).extension = "" /\ args.mime_type \notin MatchingMimes
                /\ ~FactsOf(args.url).segment)
              => result.value = <<FALSE, "", "">>

\* a URL without a listed extension whose path matches a segment pattern,
\* with a matching MIME type, classified by the MIME type
C9_Witness ==
    /\ Classified
    /\ FactsOf(args.url).extension = "" /\ FactsOf(args.url).segment
    /\ args.mime_type \in MatchingMimes
    /\ result.value = <<TRUE, "mime", "mime_type">>

\* the URLs are the files 1..n of the template, each once, in any order
ExactSeries(urls, t, n) == Len(urls) = n /\ SeqRange(urls) = SeqRange(Numbered(t, n))

Detected == pc = "done" /\ args.fn = "analyze_sequential_files"

\* C10: given N >= 3 URLs whose filenames share one template and whose
\* sequence indices are exactly 1..N without repeats,
\* analyze_sequential_files returns exactly one group, with count = N,
\* min = 1, max = N and is_sequential = true.
C10_ExactSeriesIsOneGroup ==
    Detected =>
        \A t \in SequenceTemplates, n \in 3..MaxN :
            ExactSeries(args.urls, t, n) =>
                /\ Len(result.value) = 1
                /\ result.value[1].count = n
                /\ result.value[1].min = 1
                /\ result.value[1].max = n
                /\ result.value[1].is_sequential = TRUE

\* the files 0001..0012 of seg/file{N}.ts, reported as one group of 12
C10_Witness ==
    /\ Detected
    /\ \E t \in SequenceTemplates :
            t.prefix = "seg/file" /\ ExactSeries(args.urls, t, 12)
    /\ Len(result.value) = 1
    /\ result.value[1].count = 12

\* What Python gives as the filename template of each of SequenceTemplates
\* (every digit run of the filename written {N})
TemplatePatterns ==
    {[prefix |-> "seg/file", pattern |-> "file{N}.ts"],
     [prefix |-> "http://media.y/v/seg", pattern |-> "seg{N}.ts"],
     [prefix |-> "http://cdn1.x/hls/v2_chunk", pattern |-> "v{N}_chunk{N}.m{N}s"]}

PatternOf(t) == (CHOOSE p \in TemplatePatterns : p.prefix = t.prefix).pattern

\* no two neighbours of the sorted, de-duplicated indices lie more than 10
\* apart
NoGapOver10(q) ==
    \A a \in SeqRange(q), b \in SeqRange(q) :
        (a < b /\ ~\E c \in SeqRange(q) : a < c /\ c < b) => b - a <= 10

\* at least 3 members, and no gap above 10 or at least 10 members
Qualifies(q) == Len(q) >= 3 /\ (NoGapOver10(q) \/ Len(q) >= 10)

QualifyingGroups(plan) == {i \in 1..Len(plan) : Qualifies(plan[i].indices)}

Reported(pattern) == \E i \in 1..Len(result.value) : result.value[i].pattern = pattern

ReportOf(pattern) == result.value[CHOOSE i \in 1..Len(result.value) : result.value[i].pattern = pattern]

EndsWith(s, suffix) == Len(s) >= Len(suffix) /\ SubSeq(s, Len(s) - Len(suffix) + 1, Len(s)) = suffix

\* the url and the size an entry of the capture is written with
UrlField(entry) == entry[2].request[2].url[2]

SizeField(entry) == entry[2].response[2].content[2].size[2]

EntriesEnding(suffix) == {i \in 1..Len(EntryList(har_data)) : EndsWith(UrlField(EntryList(har_data)[i]), suffix)}

\* the capture is one .m3u8 entry, fifteen .ts entries of 200,000 bytes
\* and one video.min.js entry
IsScenario ==
    /\ HasEntryList(har_data)
    /\ Len(EntryList(har_data)) = 17
    /\ Cardinality(EntriesEnding(".m3u8")) = 1
    /\ Cardinality(EntriesEnding("/video.min.js")) = 1
    /\ Cardinality(EntriesEnding(".ts")) = 15
    /\ \A i \in EntriesEnding(".ts") : SizeField(EntryList(har_data)[i]) = 200000

\* C12: a capture made of one .m3u8 entry, 15 .ts segment entries of
\* 200,000 bytes each and one video.min.js entry yields score >= 90, level
\* HIGH, verdict true, total_segments = 15 and segment_size_total =
\* 3,000,000.
C12_EndToEndScenario ==
    (pc = "done" /\ IsScenario) =>
        /\ result.outcome = "result"
        /\ result.confidence_score >= 90
        /\ result.confidence = "HIGH"
        /\ result.is_streaming_provider = TRUE
        /\ result.streaming_evidence.total_segments = 15
        /\ result.streaming_evidence.segment_size_total = 3000000

\* the scenario was analysed, with the playlist after the segments
C12_Witness ==
    /\ pc = "done" /\ IsScenario
    /\ EndsWith(UrlField(EntryList(har_data)[17]), ".m3u8")
    /\ result.streaming_evidence.segment_size_total = 3000000

Rendered == pc = "rendered" /\ prev_result.outcome = "result"

RenderedPlaylist == prev_result.streaming_evidence.playlist_url

LinesLabelled(label) == {i \in 1..Len(result.lines) : result.lines[i].label = label}

\* C13: for every result whose playlist URL is longer than 100 characters,
\* the narrative text shows the playlist URL cut to exactly its first 100
\* characters, nothing added, and the untruncated URL appears nowhere in
\* the text.
C13_PlaylistCutTo100 ==
    (Rendered /\ RenderedPlaylist # None /\ Len(RenderedPlaylist) > 100) =>
        /\ LinesLabelled("infra_playlist") # {}
        /\ \A i \in LinesLabelled("infra_playlist") :
                result.lines[i].text = SubSeq(RenderedPlaylist, 1, 100)
        /\ \A i \in 1..Len(result.lines) : ~Contains(result.lines[i].text, RenderedPlaylist)

\* the entries, by place in the capture, whose domain the loop adds to
\* streaming_domains: a streaming URL (line 281) or a suspicious domain
\* (line 302)
AddingEntries ==
    {i \in 1..Len(EntryList(har_data)) :
        \/ ObservationOf(EntryList(har_data)[i]).stream[1]
        \/ ObservationOf(EntryList(har_data)[i]).suspicious}

FirstAddedDomain == ObservationOf(EntryList(har_data)[Min(AddingEntries)]).domain

\* C14: when the streaming-domain set is non-empty, the cdn_domain of the
\* result is the domain that was added to the set first in capture order.
C14_CdnDomainIsFirstAdded ==
    (Analysed /\ AddingEntries # {}) =>
        result.streaming_evidence.cdn_domain = FirstAddedDomain

HasUrlField(entry) == "request" \in DOMAIN entry[2] /\ "url" \in DOMAIN entry[2].request[2]

\* the url fields the entries of the capture are written with
UrlFields == {UrlField(e) : e \in {x \in SeqRange(EntryList(har_data)) : HasUrlField(x)}}

\* the same, an entry written without a url counting as the empty URL
EntryUrls == UrlFields \cup (IF \E e \in SeqRange(EntryList(har_data)) : ~HasUrlField(e) THEN {""} ELSE {})

\* the URLs the result reports as segments, videos and playlist
ReportedUrls ==
    SeqRange(result.streaming_evidence.segment_urls)
    \cup SeqRange(result.streaming_evidence.video_urls)
    \cup (IF result.streaming_evidence.playlist_url # None
          THEN {result.streaming_evidence.playlist_url} ELSE {})

\* C15 as stated: in every result each URL of segment_urls and video_urls,
\* and the playlist_url when set, is the url field of at least one entry of
\* the capture.
C15_UrlsAreUrlFields == Analysed => ReportedUrls \subseteq UrlFields

\* C15 amended: each URL of segment_urls and video_urls, and the
\* playlist_url when set, is the url field of at least one entry of the
\* capture, or is the empty URL of an entry that has no url field; no URL
\* is altered.
C15_UrlsAreEntryUrls == Analysed => ReportedUrls \subseteq EntryUrls

\* a result that reports the upper-case clip URL as a segment and a
\* playlist
C15_Witness ==
    /\ Analysed
    /\ "HTTP://A.COM/V/CLIP.MP4" \in SeqRange(result.streaming_evidence.segment_urls)
    /\ result.streaming_evidence.playlist_url # None

\* the groups the detector reports for the URLs of the capture
CaptureGroups == analyze_sequential_files([i \in 1..Len(EntryList(har_data)) |-> UrlField(EntryList(har_data)[i])])

\* the member counts of groups that are at least n
CountsFrom(groups, n) == {c \in {groups[i].count : i \in DOMAIN groups} : c >= n}

GroupOfAtLeast(n) == CountsFrom(CaptureGroups, n) # {}

ReasonGiven(label) == \E i \in 1..Len(result.detection_reasons) : result.detection_reasons[i].label = label

\* the points of the rules other than the sequential-pattern rule, read
\* off the evidence of the result
OtherPoints ==
      (IF result.streaming_evidence.playlist_url # None THEN 40 ELSE 0)
    + (IF result.streaming_evidence.total_segments >= 10 THEN 35
       ELSE IF result.streaming_evidence.total_segments >= 3 THEN 20 ELSE 0)
    + (IF Len(result.streaming_evidence.player_scripts) > 0 THEN 15 ELSE 0)
    + (IF ReasonGiven("rule_domains") THEN 10 ELSE 0)
    + (IF result.streaming_evidence.segment_size_total > 1048576 THEN 10 ELSE 0)

\* C16: the sequential-pattern rule adds 30 whenever some qualifying group
\* has at least 10 members, 15 only when no group has at least 10 members
\* and some group has at least 5, whatever the order of the groups, and
\* nothing otherwise.
C16_BestGroupCounts ==
    Analysed =>
        result.confidence_score - OtherPoints
            = IF GroupOfAtLeast(10) THEN 30 ELSE IF GroupOfAtLeast(5) THEN 15 ELSE 0

LargeGroupCounts == CountsFrom(CaptureGroups, 5)

\* C17: after analysis total_segments is the maximum of len(segment_urls)
\* and the largest member count among the qualifying sequential groups of
\* at least 5 members, and is len(segment_urls) when there is no such
\* group; so it is never below len(segment_urls).
C17_TotalSegmentsIsMaximum ==
    Analysed =>
        /\ result.streaming_evidence.total_segments
              = Max({Len(result.streaming_evidence.segment_urls)} \cup LargeGroupCounts)
        /\ result.streaming_evidence.total_segments >= Len(result.streaming_evidence.segment_urls)

\* a capture whose sequential group is larger than its list of segment
\* URLs, and not empty
C17_Witness ==
    /\ Analysed
    /\ LargeGroupCounts # {}
    /\ result.streaming_evidence.total_segments > Len(result.streaming_evidence.segment_urls)
    /\ Len(result.streaming_evidence.segment_urls) > 0

\* What Python gives for the entries of RouteEntries: the url the loop
\* reads, where the classifier tag routes it (playlist for m3u8; segment
\* for segment, ts, mp4, webm, m4s; video for any other streaming tag; none
\* for a URL that is not streaming), and the content size it reads
RouteFacts ==
    {[entry |-> PlaylistEntry, url |-> "http://cdn1.x/hls/master.m3u8", route |-> "playlist", size |-> 1200],
     [entry |-> SecondPlaylistEntry, url |-> "http://a.com/live/index.m3u8", route |-> "playlist", size |-> 900],
     [entry |-> SegmentEntry, url |-> "http://media.y/v/seg1.ts", route |-> "segment", size |-> 600000],
     [entry |-> ClipEntry, url |-> "HTTP://A.COM/V/CLIP.MP4", route |-> "segment", size |-> 700000],
     [entry |-> ManifestEntry, url |-> "http://a.com/d/init.mpd", route |-> "video", size |-> 4000],
     [entry |-> MimeOnlyEntry, url |-> "http://a.com/get?id=7", route |-> "video", size |-> 900],
     [entry |-> ChunkEntry, url |-> "http://a.com/v/chunk-7", route |-> "segment", size |-> 500],
     [entry |-> PageEntry, url |-> "http://a.com/index.html", route |-> "none", size |-> 9000],
     [entry |-> NoHostEntry, url |-> "/v/seg2.ts", route |-> "segment", size |-> 800],
     [entry |-> NoUrlEntry, url |-> "", route |-> "video", size |-> 300],
     [entry |-> NoSizeEntry, url |-> "http://media.y/v/a.webm", route |-> "segment", size |-> 0]}

RouteFact(e) == CHOOSE f \in RouteFacts : f.entry = e

\* the entries of the capture routed one way, in capture order
Routed(route) == SelectSeq(EntryList(har_data), LAMBDA e : RouteFact(e).route = route)

UrlsOfEntries(entries) == [i \in 1..Len(entries) |-> RouteFact(entries[i]).url]

SizesOfEntries(entries) == [i \in 1..Len(entries) |-> RouteFact(entries[i]).size]

LastUrlOrNone(urls) == IF urls = <<>> THEN None ELSE urls[Len(urls)]

\* C18: the loop routes each entry by its classifier tag: m3u8 sets
\* playlist_url, a later playlist replacing an earlier one; segment, ts,
\* mp4, webm or m4s appends the URL to segment_urls and adds the content
\* size to segment_size_total; any other streaming tag appends to
\* video_urls only; an entry that is not streaming changes none of them; so
\* segment_size_total is the sum of the sizes of the entries in
\* segment_urls.
C18_RoutedByTag ==
    Analysed =>
        /\ result.streaming_evidence.playlist_url = LastUrlOrNone(UrlsOfEntries(Routed("playlist")))
        /\ result.streaming_evidence.segment_urls = UrlsOfEntries(Routed("segment"))
        /\ result.streaming_evidence.video_urls = UrlsOfEntries(Routed("video"))
        /\ result.streaming_evidence.segment_size_total = SumSeq(SizesOfEntries(Routed("segment")))

\* two playlists were analysed and the later one is reported
C18_Witness ==
    /\ Analysed
    /\ EntryList(har_data) = <<PlaylistEntry, SecondPlaylistEntry>>
    /\ result.streaming_evidence.playlist_url = "http://a.com/live/index.m3u8"

\* the domains of the entries whose domain is_suspicious_streaming_domain accepts
SuspiciousDomains ==
    {ObservationOf(e).domain : e \in {x \in SeqRange(EntryList(har_data)) : ObservationOf(x).suspicious}}

\* the texts of the reasons the domain rule of lines 372-374 gave
DomainReasonTexts ==
    {result.detection_reasons[i].text : i \in {j \in 1..Len(result.detection_reasons) : result.detection_reasons[j].label = "rule_domains"}}

\* C19: the streaming-domain set, which earns the domain rule's points and
\* from which cdn_domain is picked, holds exactly the domains of the entries
\* with a suspicious domain: the rule fires only when some entry has one,
\* its reason lists those domains, and the cdn_domain picked from the set is
\* one of them; an entry that is only a streaming URL adds nothing.
C19_OnlySuspiciousDomains ==
    Analysed =>
        /\ ReasonGiven("rule_domains") <=> SuspiciousDomains # {}
        /\ \A text \in DomainReasonTexts : \E order \in Orders(SuspiciousDomains) : text = Join(order)
        /\ SuspiciousDomains # {} => result.streaming_evidence.cdn_domain \in SuspiciousDomains

\* the entries of the capture whose URL gives an empty domain
EmptyDomainEntries == {i \in 1..Len(EntryList(har_data)) : ObservationOf(EntryList(har_data)[i]).domain = ""}

ObservedDomains ==
    UNION {{result.cdn_detection[i].observations[j].domain : j \in 1..Len(result.cdn_detection[i].observations)} : i \in 1..Len(result.cdn_detection)}

\* C20: an entry whose URL gives an empty domain is counted in
\* total_requests, and no domain of unique_domains, no CDN observation, no
\* domain of the domain rule's reason and no cdn_domain is the empty domain.
C20_EmptyDomainLeavesNoTrace ==
    (Analysed /\ EmptyDomainEntries # {}) =>
        /\ result.total_requests = Len(EntryList(har_data))
        /\ "" \notin SeqRange(result.unique_domains)
        /\ "" \notin ObservedDomains
        /\ result.streaming_evidence.cdn_domain # ""
        /\ \A text \in DomainReasonTexts : \E S \in (SUBSET (SetMembers(har_data) \ {""})) \ {{}} : \E order \in Orders(S) : text = Join(order)

\* the reasons of the scoring rules, in the order of the rule table
RuleLabels == <<"rule_playlist", "rule_segments", "rule_player", "rule_domains", "rule_size">>

\* whether the condition of a rule holds of the evidence of the result; the
\* streaming-domain set is not part of the result, it is non-empty when
\* some entry of the capture added to it
RuleSatisfied(label) ==
    CASE label = "rule_playlist" -> result.streaming_evidence.playlist_url # None
      [] label = "rule_segments" -> result.streaming_evidence.total_segments >= 3
      [] label = "rule_player" -> Len(result.streaming_evidence.player_scripts) > 0
      [] label = "rule_domains" -> AddingEntries # {}
      [] label = "rule_size" -> result.streaming_evidence.segment_size_total > 1048576

ReasonLabels == [i \in 1..Len(result.detection_reasons) |-> result.detection_reasons[i].label]

\* C21: the reasons of the scoring rules stand in the reasons list in the
\* order of the rule table (playlist, segment count, player scripts,
\* streaming domains, segment size): one reason for each satisfied rule,
\* none for an unsatisfied one, and none of a later rule before one of an
\* earlier rule.
C21_RuleReasonsInTableOrder ==
    Analysed =>
        SelectSeq(ReasonLabels, LAMBDA l : l \in SeqRange(RuleLabels)) = SelectSeq(RuleLabels, RuleSatisfied)

\* the playlist, segment count, domain and size rules are satisfied while
\* the player rule is not, and the reasons of the pass over the entries and
\* of the sequential pattern stand before theirs
C21_Witness ==
    /\ Analysed
    /\ SelectSeq(RuleLabels, RuleSatisfied) = <<"rule_playlist", "rule_segments", "rule_domains", "rule_size">>
    /\ ReasonGiven("playlist_found")
    /\ ReasonGiven("sequential_found")

\* analyze_har returned a result, from the analysis or from the guarded parse
Returned == pc = "done" /\ result.outcome \in {"result", "parse_failure"}

\* C22: in every result analyze_har returns, the results of a parse
\* failure and of an empty capture included, is_streaming_provider is true
\* exactly when the confidence level is LOW, MEDIUM or HIGH, so a false
\* verdict comes with the level NONE.
C22_VerdictIffLevel ==
    Returned =>
        /\ result.confidence \in {"NONE", "LOW", "MEDIUM", "HIGH"}
        /\ result.is_streaming_provider <=> result.confidence \in {"LOW", "MEDIUM", "HIGH"}

\* the URLs of the entries of the capture
CaptureUrls == {UrlField(EntryList(har_data)[i]) : i \in 1..Len(EntryList(har_data))}

\* the distinct sequence indices of the URLs filed under a pattern
DistinctIndices(pattern) ==
    {FileKeyOf(u).seq_num : u \in {x \in CaptureUrls : FileKeyOf(x).numbered /\ FileKeyOf(x).pattern = pattern}}

AllOfThreeIndices(groups) == \A i \in DOMAIN groups : Cardinality(DistinctIndices(groups[i].pattern)) >= 3

\* C23: every group analyze_sequential_files reports holds at least 3
\* distinct sequence indices, so a capture that repeats one URL has no
\* sequential pattern: no reason for one, no points of the sequential rule
\* and no segment count beyond the segment URLs.
C23_ThreeDistinctIndices ==
    Analysed =>
        /\ AllOfThreeIndices(CaptureGroups)
        /\ Cardinality(CaptureUrls) = 1 =>
               /\ ~ReasonGiven("sequential_found")
               /\ result.confidence_score = OtherPoints
               /\ result.streaming_evidence.total_segments = Len(result.streaming_evidence.segment_urls)

\* the patterns the summary names in its sequential-pattern line
SummaryPatterns ==
    {result.summary[i].text : i \in {j \in 1..Len(result.summary) : result.summary[j].label = "sequential_pattern"}}

\* C24: when the summary names a sequential pattern,
\* streaming_evidence.segment_pattern is that pattern, however many groups
\* of at least 5 members there are; segment_pattern is None exactly when
\* there is no such group.
C24_SummaryPatternIsSegmentPattern ==
    Analysed =>
        /\ \A pattern \in SummaryPatterns : result.streaming_evidence.segment_pattern = pattern
        /\ result.streaming_evidence.segment_pattern = None <=> ~GroupOfAtLeast(5)

\* get_recent returned
Recent == pc = "done" /\ args.fn = "get_recent"

\* the last k elements of q
LastOf(q, k) == SubSeq(q, Len(q) - k + 1, Len(q))

\* C25: after any sequence of add_record calls, get_recent(limit) with
\* limit >= 0 returns the most recent min(limit, number of stored records)
\* records in insertion order, so never more than limit records, and the
\* stored records never exceed max_size.
C25_RecentAtMostLimit ==
    /\ Len(analysis_history.records) <= analysis_history.maxlen
    /\ (Recent /\ args.limit >= 0) =>
          /\ result.value = LastOf(analysis_history.records, Min({args.limit, Len(analysis_history.records)}))
          /\ Len(result.value) <= args.limit

====
